---- MODULE Spec2Model ----
(***************************************************************************)
(* Marble transition engine of isomarble-run                               *)
(* (src/src/lib/marble-state-machine.ts, src/src/lib/block-types.ts) and   *)
(* the page that drives it (src/src/app/page.tsx), with the sound manager  *)
(* of the page (useSoundManager, src/unnamed/part_000).                    *)
(*                                                                         *)
(* One marble is created on a board of track pieces and stepped by         *)
(* updateMarbleStateMachine.  Every Math.random() call of the code is a    *)
(* value r drawn by the action and handed to the function that uses it;    *)
(* r is counted in thousandths, so Math.floor(Math.random() * n) is        *)
(* (r * n) \div 1000.                                                      *)
(***************************************************************************)
EXTENDS Integers, Sequences, FiniteSets, TLC

VARIABLES marble, trackPieces, prev, ticks,
          marbles, sprites, ui, timerPieces, clock, last, sound

\* the state of the page (src/src/app/page.tsx), see SpecPage
pageVars == <<marbles, sprites, ui, timerPieces, clock, last, sound>>

vars == <<marble, trackPieces, prev, ticks,
          marbles, sprites, ui, timerPieces, clock, last, sound>>

(***************************************************************************)
(* Bounds of the model                                                     *)
(***************************************************************************)
\* number of engine calls made on one marble
MaxTicks == 4
\* SpecWide draws the marble's coordinates from -MaxCoord..MaxCoord
MaxCoord == 33

\* Math.random() results, in thousandths: they reach every index of an
\* array of 2, 3 or 4 outputs and both ends of the hue draws
RandomSamples == {0, 300, 500, 999}

\* Date.now() values used for marble ids
Timestamps == {1}

(***************************************************************************)
(* Values                                                                  *)
(***************************************************************************)
Pos(x, y) == [x |-> x, y |-> y]

\* an optional field that is absent (behindCoordinates?: GridPosition)
Undefined == <<>>
Some(v) == <<v>>

\* MomentumDirection, block-types.ts
MomentumDirection == {"+x", "+y", "-x", "-y", "0"}

\* MarbleStateType, block-types.ts
MarbleStateType == {"rolling", "falling", "behind"}

\* the marble slot before any marble is placed
NoMarble == [id |-> 0]

\* a MomentumDirection | MomentumDirection[] value
Single(m) == [isArray |-> FALSE, values |-> <<m>>]
Arr(s) == [isArray |-> TRUE, values |-> s]

Cond(i, o) == [inputMomentum |-> i, outputMomentum |-> o]

Block(name, def, conds) ==
  [blockName |-> name, defaultOutputMomentum |-> def, conditionalOutputs |-> conds]

BLOCK_TYPES ==
  << Block("CrissCross", Arr(<<"+x", "-x", "+y", "-y">>),
           << Cond("+x", Single("+x")), Cond("-x", Single("-x")),
              Cond("+y", Single("+y")), Cond("-y", Single("-y")) >>),
     Block("StrightY", Arr(<<"-y", "+y">>),
           << Cond("+y", Single("+y")), Cond("-y", Single("-y")) >>),
     Block("StrightX", Arr(<<"+x", "-x">>),
           << Cond("-x", Single("-x")), Cond("+x", Single("+x")) >>),
     Block("LandingPlusY", Single("+y"), << >>),
     Block("LandingMinusY", Single("-y"), << >>),
     Block("LandingMinusX", Single("-x"), << >>),
     Block("LandingPlusX", Single("+x"), << >>),
     Block("TurnXY", Arr(<<"+x", "+y">>),
           << Cond("-x", Single("+y")), Cond("-y", Single("+x")) >>),
     Block("TurnXMinusY", Arr(<<"+x", "-y">>),
           << Cond("-x", Single("-y")), Cond("+y", Single("+x")) >>),
     Block("TurnYMinusX", Arr(<<"+y", "-x">>),
           << Cond("-y", Single("-x")), Cond("+x", Single("+y")) >>),
     Block("TurnMinusXMinusY", Arr(<<"-x", "-y">>),
           << Cond("+x", Single("-y")), Cond("+y", Single("-x")) >>),
     Block("TPlusX", Arr(<<"+x", "-y", "+y">>),
           << Cond("-x", Arr(<<"-y", "+y">>)), Cond("-y", Single("-y")),
              Cond("+y", Single("+y")) >>),
     Block("TMinusX", Arr(<<"-x", "-y", "+y">>),
           << Cond("+x", Arr(<<"-y", "+y">>)), Cond("-y", Single("-y")),
              Cond("+y", Single("+y")) >>),
     Block("TPlusY", Arr(<<"+y", "-x", "+x">>),
           << Cond("-y", Arr(<<"-x", "+x">>)), Cond("-x", Single("-x")),
              Cond("+x", Single("+x")) >>),
     Block("TMinusY", Arr(<<"-y", "-x", "+x">>),
           << Cond("+y", Arr(<<"-x", "+x">>)), Cond("-x", Single("-x")),
              Cond("+x", Single("+x")) >> ) >>

(***************************************************************************)
(* Helpers of the engine                                                   *)
(***************************************************************************)
\* the % operator of JavaScript: the remainder takes the sign of the dividend
JsRem(a, b) == IF a >= 0 THEN a % b ELSE -((-a) % b)

\* Math.floor(Math.random() * n) for the draw r
RandomFloor(r, n) == (r * n) \div 1000

Min(S) == CHOOSE m \in S : \A n \in S : m <= n

\* Array.prototype.find on BLOCK_TYPES: Some(first match) or Undefined
getBlockBehavior(blockName) ==
  LET hits == {i \in 1..Len(BLOCK_TYPES) : BLOCK_TYPES[i].blockName = blockName}
  IN  IF hits = {} THEN Undefined ELSE Some(BLOCK_TYPES[Min(hits)])

\* variant of momentumToVelocity: "-y" takes the vector of "+y"
momentumToVelocityMinusYAsPlusY(momentum) ==
  CASE momentum = "+x" -> Pos(1, 0)
    [] momentum = "-x" -> Pos(-1, 0)
    [] momentum = "+y" -> Pos(0, 1)
    [] momentum = "-y" -> Pos(0, 1)
    [] OTHER -> Pos(0, 0)

momentumToVelocity(momentum) ==
  CASE momentum = "+x" -> Pos(1, 0)
    [] momentum = "-x" -> Pos(-1, 0)
    [] momentum = "+y" -> Pos(0, 1)
    [] momentum = "-y" -> Pos(0, -1)
    [] momentum = "0" -> Pos(0, 0)
    [] OTHER -> Pos(0, 0)

minBound == -10
maxBound == 10
gridSize == maxBound - minBound + 1

\* variant of wrapGridPosition: one signed remainder for both sides
wrapGridPositionSignedRem(position) ==
  LET wrap(c) == IF c > maxBound \/ c < minBound
                   THEN minBound + JsRem(c - minBound, gridSize)
                   ELSE c
  IN  Pos(wrap(position.x), wrap(position.y))

\* variant of wrapGridPosition: the lower side without the "- 1"
wrapGridPositionOffByOne(position) ==
  LET wrap(c) == IF c > maxBound
                   THEN minBound + JsRem(c - minBound, gridSize)
                   ELSE IF c < minBound
                     THEN maxBound - JsRem(minBound - c, gridSize)
                     ELSE c
  IN  Pos(wrap(position.x), wrap(position.y))

wrapGridPosition(position) ==
  LET wrappedX ==
        IF position.x > maxBound
          THEN minBound + JsRem(position.x - minBound, gridSize)
          ELSE IF position.x < minBound
            THEN maxBound - JsRem(minBound - position.x - 1, gridSize)
            ELSE position.x
      wrappedY ==
        IF position.y > maxBound
          THEN minBound + JsRem(position.y - minBound, gridSize)
          ELSE IF position.y < minBound
            THEN maxBound - JsRem(minBound - position.y - 1, gridSize)
            ELSE position.y
  IN  Pos(wrappedX, wrappedY)

\* Array.prototype.find on the track pieces: Some(first match) or Undefined
getTrackAt(position, pieces) ==
  LET hits == {i \in 1..Len(pieces) :
                 /\ pieces[i].position.x = position.x
                 /\ pieces[i].position.y = position.y}
  IN  IF hits = {} THEN Undefined ELSE Some(pieces[Min(hits)])

occlusionOffsets ==
  << Pos(-1, 0), Pos(0, -1), Pos(-1, -1), Pos(-2, -1), Pos(-1, -2), Pos(-2, -2) >>

\* variant of isMarbleOccluded: the marble's own cell counts as well
isMarbleOccludedWithOwnCell(marblePosition, pieces) ==
  \/ getTrackAt(marblePosition, pieces) # Undefined
  \/ \E i \in 1..Len(occlusionOffsets) :
       getTrackAt(Pos(marblePosition.x + occlusionOffsets[i].x,
                      marblePosition.y + occlusionOffsets[i].y), pieces) # Undefined

\* variant of isMarbleOccluded: the probed position is wrapped onto the
\* board before the lookup
isMarbleOccludedWrapped(marblePosition, pieces) ==
  \E i \in 1..Len(occlusionOffsets) :
    getTrackAt(wrapGridPosition(
                 Pos(marblePosition.x + occlusionOffsets[i].x,
                     marblePosition.y + occlusionOffsets[i].y)), pieces) # Undefined

isMarbleOccluded(marblePosition, pieces) ==
  \E i \in 1..Len(occlusionOffsets) :
    getTrackAt(Pos(marblePosition.x + occlusionOffsets[i].x,
                   marblePosition.y + occlusionOffsets[i].y), pieces) # Undefined

\* the value picked from a MomentumDirection | MomentumDirection[]
pickOutput(output, r) ==
  IF output.isArray
    THEN output.values[RandomFloor(r, Len(output.values)) + 1]
    ELSE output.values[1]

\* variant of applyBlockBehavior: the conditional rules are never consulted
applyBlockBehaviorDefaultOnly(inputMomentum, blockBehavior, r) ==
  [outputState |-> "rolling",
   outputMomentum |-> pickOutput(blockBehavior.defaultOutputMomentum, r)]

\* variant of applyBlockBehavior: with no matching rule a moving marble
\* keeps its direction
applyBlockBehaviorKeepsDirection(inputMomentum, blockBehavior, r) ==
  LET conds == blockBehavior.conditionalOutputs
      hits == {i \in 1..Len(conds) : conds[i].inputMomentum = inputMomentum}
  IN  IF hits # {}
        THEN [outputState |-> "rolling",
              outputMomentum |-> pickOutput(conds[Min(hits)].outputMomentum, r)]
        ELSE [outputState |-> "rolling",
              outputMomentum |->
                IF inputMomentum # "0"
                  THEN inputMomentum
                  ELSE pickOutput(blockBehavior.defaultOutputMomentum, r)]

\* variant of applyBlockBehavior: with no matching rule the marble stops
applyBlockBehaviorZeroOnNoRule(inputMomentum, blockBehavior, r) ==
  LET conds == blockBehavior.conditionalOutputs
      hits == {i \in 1..Len(conds) : conds[i].inputMomentum = inputMomentum}
  IN  IF hits # {}
        THEN [outputState |-> "rolling",
              outputMomentum |-> pickOutput(conds[Min(hits)].outputMomentum, r)]
        ELSE [outputState |-> "rolling", outputMomentum |-> "0"]

\* variant of applyBlockBehavior: the search of the rules starts at the
\* second rule
applyBlockBehaviorSkipsFirstRule(inputMomentum, blockBehavior, r) ==
  LET conds == blockBehavior.conditionalOutputs
      hits == {i \in 2..Len(conds) : conds[i].inputMomentum = inputMomentum}
  IN  IF hits # {}
        THEN [outputState |-> "rolling",
              outputMomentum |-> pickOutput(conds[Min(hits)].outputMomentum, r)]
        ELSE [outputState |-> "rolling",
              outputMomentum |-> pickOutput(blockBehavior.defaultOutputMomentum, r)]

\* variant of applyBlockBehavior: a rule with an array of outputs draws
\* from the default array instead
applyBlockBehaviorArrayRuleFromDefault(inputMomentum, blockBehavior, r) ==
  LET conds == blockBehavior.conditionalOutputs
      hits == {i \in 1..Len(conds) : conds[i].inputMomentum = inputMomentum}
  IN  IF hits # {}
        THEN [outputState |-> "rolling",
              outputMomentum |->
                IF conds[Min(hits)].outputMomentum.isArray
                  THEN pickOutput(blockBehavior.defaultOutputMomentum, r)
                  ELSE pickOutput(conds[Min(hits)].outputMomentum, r)]
        ELSE [outputState |-> "rolling",
              outputMomentum |-> pickOutput(blockBehavior.defaultOutputMomentum, r)]

applyBlockBehavior(inputMomentum, blockBehavior, r) ==
  LET conds == blockBehavior.conditionalOutputs
      hits == {i \in 1..Len(conds) : conds[i].inputMomentum = inputMomentum}
  IN  IF hits # {}
        THEN [outputState |-> "rolling",
              outputMomentum |-> pickOutput(conds[Min(hits)].outputMomentum, r)]
        ELSE [outputState |-> "rolling",
              outputMomentum |-> pickOutput(blockBehavior.defaultOutputMomentum, r)]

moveMarbleOneStep(m, momentum) ==
  LET velocity == momentumToVelocity(momentum)
  IN  Pos(m.gridPosition.x + velocity.x, m.gridPosition.y + velocity.y)

\* const hueIncrement = 30 + Math.floor(Math.random() * 111)
hueIncrement(r) == 30 + RandomFloor(r, 111)

\* variant of shiftHue: the sum is not reduced modulo 360
shiftHueNoWrap(hue, r) == hue + hueIncrement(r)

\* ((newMarble.hue || 0) + hueIncrement) % 360
shiftHue(hue, r) == JsRem(hue + hueIncrement(r), 360)

\* variant of rotateStep: the angle is not wrapped
rotateStepNoWrap(rotation) == rotation + 15

\* newMarble.rotation += 15; if (newMarble.rotation >= 360) newMarble.rotation -= 360
rotateStep(rotation) ==
  IF rotation + 15 >= 360 THEN rotation + 15 - 360 ELSE rotation + 15

\* { x: marble.gridPosition.x + 1, y: marble.gridPosition.y + 1 }
fallPosition(m) == Pos(m.gridPosition.x + 1, m.gridPosition.y + 1)

\* variant of createMarble: the hue is drawn from 361 values
createMarbleHueUpTo360(position, now, r) ==
  [id |-> now,
   gridPosition |-> Pos(position.x, position.y),
   state |-> "falling",
   momentum |-> "0",
   rotation |-> 0,
   hue |-> RandomFloor(r, 361),
   behindCoordinates |-> Undefined]

createMarble(position, now, r) ==
  [id |-> now,
   gridPosition |-> Pos(position.x, position.y),
   state |-> "falling",
   momentum |-> "0",
   rotation |-> 0,
   hue |-> RandomFloor(r, 360),
   behindCoordinates |-> Undefined]

\* variant of stepBehind: occlusion tested at the position before the move
stepBehindTestsOldPosition(m, pieces, r) ==
  LET moved == [m EXCEPT !.state = "behind", !.momentum = "0",
                         !.gridPosition = wrapGridPosition(fallPosition(m))]
  IN  IF ~isMarbleOccluded(m.gridPosition, pieces)
        THEN [moved EXCEPT !.state = "falling",
                           !.hue = shiftHue(moved.hue, r),
                           !.behindCoordinates = Undefined]
        ELSE moved

\* variant of stepBehind: a marble that re-emerges on a track piece rolls
stepBehindLandsRolling(m, pieces, r) ==
  LET moved == [m EXCEPT !.state = "behind", !.momentum = "0",
                         !.gridPosition = wrapGridPosition(fallPosition(m))]
  IN  IF ~isMarbleOccluded(moved.gridPosition, pieces)
        THEN [moved EXCEPT !.state = IF getTrackAt(moved.gridPosition, pieces) # Undefined
                                       THEN "rolling" ELSE "falling",
                           !.hue = shiftHue(moved.hue, r),
                           !.behindCoordinates = Undefined]
        ELSE moved

\* the branch of a marble in state behind (lines 57-81)
stepBehind(m, pieces, r) ==
  LET moved == [m EXCEPT !.state = "behind", !.momentum = "0",
                         !.gridPosition = wrapGridPosition(fallPosition(m))]
  IN  IF ~isMarbleOccluded(moved.gridPosition, pieces)
        THEN [moved EXCEPT !.state = "falling",
                           !.hue = shiftHue(moved.hue, r),
                           !.behindCoordinates = Undefined]
        ELSE moved

\* variant of stepOnTrack: the move uses the incoming momentum
stepOnTrackMovesByIncoming(m, currentTrack, r) ==
  LET blockBehavior == getBlockBehavior(currentTrack.blockName)
      rolling == [m EXCEPT !.state = "rolling"]
  IN  IF blockBehavior # Undefined
        THEN LET out == applyBlockBehavior(m.momentum, blockBehavior[1], r)
             IN  [rolling EXCEPT !.state = out.outputState,
                                 !.momentum = out.outputMomentum,
                                 !.gridPosition =
                                    wrapGridPosition(moveMarbleOneStep(m, m.momentum)),
                                 !.rotation = rotateStep(m.rotation)]
        ELSE rolling

\* the branch of a marble on a track piece (lines 87-122)
stepOnTrack(m, currentTrack, r) ==
  LET blockBehavior == getBlockBehavior(currentTrack.blockName)
      rolling == [m EXCEPT !.state = "rolling"]
  IN  IF blockBehavior # Undefined
        THEN LET out == applyBlockBehavior(m.momentum, blockBehavior[1], r)
                 turned == [rolling EXCEPT !.state = out.outputState,
                                           !.momentum = out.outputMomentum]
                 moved == [turned EXCEPT !.gridPosition =
                             wrapGridPosition(moveMarbleOneStep(turned, out.outputMomentum))]
             IN  IF moved.state = "rolling"
                   THEN [moved EXCEPT !.rotation = rotateStep(moved.rotation)]
                   ELSE moved
        ELSE rolling

\* marble.state === "rolling" && (momentum === "-x" || momentum === "-y")
wasRollingWithNegativeMomentum(m) ==
  m.state = "rolling" /\ (m.momentum = "-x" \/ m.momentum = "-y")

\* the marble fell backwards off a block (lines 131-144)
entersBehind(m) ==
  [m EXCEPT !.state = "behind",
            !.behindCoordinates = Some(Pos(m.gridPosition.x, m.gridPosition.y))]

\* the marble falls (lines 145-154)
entersFalling(m, r) ==
  [m EXCEPT !.hue = IF m.state # "falling" THEN shiftHue(m.hue, r) ELSE m.hue,
            !.state = "falling",
            !.behindCoordinates = Undefined]

\* variant of stepOffTrack: the momentum is not reset
stepOffTrackKeepsMomentum(m, r) ==
  [(IF wasRollingWithNegativeMomentum(m) THEN entersBehind(m) ELSE entersFalling(m, r))
     EXCEPT !.gridPosition = wrapGridPosition(fallPosition(m))]

\* variant of stepOffTrack: behindCoordinates takes the position after the move
stepOffTrackStoresNewPosition(m, r) ==
  LET np == wrapGridPosition(fallPosition(m))
  IN  [(IF wasRollingWithNegativeMomentum(m)
          THEN [entersBehind(m) EXCEPT !.behindCoordinates = Some(np)]
          ELSE entersFalling(m, r))
         EXCEPT !.momentum = "0", !.gridPosition = np]

\* variant of stepOffTrack: every rolling marble goes behind
stepOffTrackAnyRollingBehind(m, r) ==
  [(IF m.state = "rolling" THEN entersBehind(m) ELSE entersFalling(m, r))
     EXCEPT !.momentum = "0",
            !.gridPosition = wrapGridPosition(fallPosition(m))]

\* variant of stepOffTrack: the hue is shifted on every fall
stepOffTrackAlwaysShiftsHue(m, r) ==
  [(IF wasRollingWithNegativeMomentum(m)
      THEN entersBehind(m)
      ELSE [entersFalling(m, r) EXCEPT !.hue = shiftHue(m.hue, r)])
     EXCEPT !.momentum = "0",
            !.gridPosition = wrapGridPosition(fallPosition(m))]

\* the branch of a marble on no track piece (lines 123-164)
stepOffTrack(m, r) ==
  LET changed == IF wasRollingWithNegativeMomentum(m)
                   THEN entersBehind(m)
                   ELSE entersFalling(m, r)
  IN  [changed EXCEPT !.momentum = "0",
                      !.gridPosition = wrapGridPosition(fallPosition(m))]

\* variant of updateMarbleStateMachine: the tile lookup comes first
updateMarbleStateMachineLookupFirst(m, pieces, r) ==
  LET currentTrack == getTrackAt(m.gridPosition, pieces)
  IN  IF currentTrack # Undefined
        THEN stepOnTrack(m, currentTrack[1], r)
        ELSE IF m.state = "behind"
          THEN stepBehind(m, pieces, r)
          ELSE stepOffTrack(m, r)

updateMarbleStateMachine(m, pieces, r) ==
  IF m.state = "behind"
    THEN stepBehind(m, pieces, r)
    ELSE LET currentTrack == getTrackAt(m.gridPosition, pieces)
         IN  IF currentTrack # Undefined
               THEN stepOnTrack(m, currentTrack[1], r)
               ELSE stepOffTrack(m, r)

(***************************************************************************)
(* The boards and start cells of the model                                 *)
(***************************************************************************)
Piece(x, y, name) == [position |-> Pos(x, y), blockName |-> name]

RegistryNames == {BLOCK_TYPES[i].blockName : i \in 1..Len(BLOCK_TYPES)}

LandingNames == {"LandingPlusX", "LandingMinusX", "LandingPlusY", "LandingMinusY"}

\* a blockName that BLOCK_TYPES does not hold
UnknownName == "Mystery"

\* one piece in the middle of the board, of every type
CentreBoards == {<<Piece(0, 0, n)>> : n \in RegistryNames \cup {UnknownName}}

\* one piece in a corner of the board, or outside the wrapped range
EdgeCells == {Pos(10, 10), Pos(-10, -10), Pos(31, -32)}
EdgeBoards == {<<Piece(c.x, c.y, n)>> : c \in EdgeCells, n \in LandingNames}

\* one piece around the path of a marble that rolled off (0,0) backwards
CoverCells ==
  {Pos(-1, 0), Pos(0, 1), Pos(-1, 1), Pos(1, 1), Pos(0, 2), Pos(1, 2), Pos(2, 3)}
CoverBoards == {<<Piece(c.x, c.y, "StrightX")>> : c \in CoverCells}

\* boards of two pieces: a track, and two pieces on one cell
PairBoards ==
  { <<Piece(0, 0, "LandingMinusX"), Piece(-1, 0, "TurnXY")>>,
    <<Piece(0, 0, "LandingMinusY"), Piece(1, 0, "StrightX")>>,
    <<Piece(0, 0, "LandingPlusX"), Piece(0, 0, "LandingMinusX")>>,
    <<Piece(0, 0, "LandingMinusX"), Piece(0, 0, "LandingPlusX")>> }

Boards == {<< >>} \cup CentreBoards \cup EdgeBoards \cup CoverBoards \cup PairBoards

StartPositions ==
  {Pos(0, 0), Pos(-1, -1), Pos(5, 5), Pos(10, 10), Pos(-10, -10), Pos(31, -32)}

WidePositions ==
  {Pos(x, y) : x \in -MaxCoord..MaxCoord, y \in -MaxCoord..MaxCoord}

(***************************************************************************)
(* State of the page (Home, src/src/app/page.tsx).                         *)
(*   marbles      useState marbles: the list of marbles                    *)
(*   sprites      useState sprites: the list of placed tiles               *)
(*   ui           the other useState slots of Home, one field each; a      *)
(*                null slot is Undefined                                   *)
(*   timerPieces  the trackPieces the running auto-mode interval closed    *)
(*                over, Undefined when no interval runs                    *)
(*   clock        the last value Date.now() returned                       *)
(*   last         the last operation of the page with the state before it *)
(*   sound        useState soundEnabled and the refs of useSoundManager     *)
(* spritePath and height of a tile are copied by every operation modelled  *)
(* here and read by none; they are left out, and so is the deepen tool.    *)
(***************************************************************************)
\* SPRITE_TYPES: one entry per block type, id `block-${index}`
SPRITE_TYPES ==
  [i \in 1..Len(BLOCK_TYPES) |->
     [id |-> i - 1, blockName |-> BLOCK_TYPES[i].blockName]]

Tool == {"place", "move", "select", "marble"}

InitialUi ==
  [activeTool |-> "place",
   selectedSpriteType |-> 1,
   previewPosition |-> Undefined,
   isMouseDown |-> FALSE,
   isPlacingMarble |-> FALSE,
   autoMode |-> FALSE,
   selectedSprite |-> Undefined,
   dragStartPosition |-> Undefined,
   isDragging |-> FALSE,
   draggedSpriteData |-> Undefined,
   isSelecting |-> FALSE,
   selectionStart |-> Undefined,
   selectionEnd |-> Undefined,
   selectedSprites |-> << >>,
   draggedSelectionData |-> Undefined]

NoOp == [op |-> "none", marbles |-> << >>, sprites |-> << >>,
         pieces |-> << >>, at |-> Undefined]

\* useSoundManager after the mount of the page, useState(false) of line 56:
\*   soundEnabled     the soundEnabled slot of the page
\*   enabledRef       enabledRef.current
\*   rollingAudios    rollingAudiosRef.current: marble id -> index in audios
\*   previousMarbles  previousMarblesRef.current: marble id -> state
\*   audios           every Audio element startMarbleRoll made, in order:
\*                    the marble id it was made for, whether it plays,
\*                    whether its listeners are attached, and whether the
\*                    retry timeout of its failed play() is pending
\*   tapPlaying       the tap sound of marbleTapRef plays
InitialSound ==
  [soundEnabled |-> FALSE,
   enabledRef |-> FALSE,
   rollingAudios |-> << >>,
   previousMarbles |-> << >>,
   audios |-> << >>,
   tapPlaying |-> FALSE]

\* the page as it is mounted: nothing placed, no timer
PageIdle ==
  /\ marbles = << >>
  /\ sprites = << >>
  /\ ui = InitialUi
  /\ timerPieces = Undefined
  /\ clock = 1
  /\ last = NoOp
  /\ sound = InitialSound

\* const trackPieces = sprites.map(...)
trackPiecesOf(sps) ==
  [k \in 1..Len(sps) |->
     [position |-> sps[k].position, blockName |-> sps[k].blockName,
      hue |-> sps[k].hue]]

\* createIsometricGrid(100)
gridCellWidth == 50
gridCellHeight == 25

\* variant of gridToScreen: the cell width and height change places
gridToScreenHeightForWidth(gridPos) ==
  Pos((gridPos.x - gridPos.y) * gridCellHeight,
      (gridPos.x + gridPos.y) * gridCellWidth)

gridToScreen(gridPos) ==
  Pos((gridPos.x - gridPos.y) * gridCellWidth,
      (gridPos.x + gridPos.y) * gridCellHeight)

\* gridToScreenPosition (marble-state-machine.ts, lines 202-209)
gridToScreenPosition(gridPosition) ==
  LET screenX == (gridPosition.x - gridPosition.y) * 50
      screenY == (gridPosition.x + gridPosition.y) * 25
  IN  Pos(screenX, screenY)

\* Math.round(num / den) for den > 0
RoundDiv(num, den) == (2 * num + den) \div (2 * den)

\* (sx/50 + sy/25)/2 = (sx + 2 sy)/100,  (sy/25 - sx/50)/2 = (2 sy - sx)/100
screenToGrid(screenPos) ==
  Pos(RoundDiv(screenPos.x * gridCellHeight + screenPos.y * gridCellWidth,
               2 * gridCellWidth * gridCellHeight),
      RoundDiv(screenPos.y * gridCellWidth - screenPos.x * gridCellHeight,
               2 * gridCellWidth * gridCellHeight))

\* Array.prototype.find / findIndex: the first index whose element passes
FirstIndex(seq, Test(_)) ==
  LET hits == {i \in 1..Len(seq) : Test(seq[i])}
  IN  IF hits = {} THEN 0 ELSE Min(hits)

\* Array.prototype.filter
Filter(seq, Test(_)) == SelectSeq(seq, Test)

\* zIndex of a marble (Marble.tsx, lines 127-133)
marbleZIndex(m) ==
  IF m.state = "behind" /\ m.behindCoordinates # Undefined
    THEN 100 + (m.behindCoordinates[1].x + m.behindCoordinates[1].y) - 1
    ELSE IF m.state = "behind" THEN 1 ELSE 200

\* zIndex of a tile without zIndexOverride (IsometricSprite.tsx, lines 62-68)
spriteZIndex(gridPosition) == 100 + (gridPosition.x + gridPosition.y)

(***************************************************************************)
(* Specification of the engine: a marble is placed on the board and        *)
(* stepped, while the editor may hand over another board between steps.    *)
(*   marble       the marble, NoMarble before it is placed                 *)
(*   trackPieces  the board handed to the next call                        *)
(*   prev         the marble as it was before the last step, NoMarble      *)
(*                when the last operation was not a step                   *)
(*   ticks        the number of steps made                                 *)
(***************************************************************************)
Init ==
  /\ marble = NoMarble
  /\ trackPieces = << >>
  /\ prev = NoMarble
  /\ ticks = 0
  /\ PageIdle

\* handleGridClick with the marble tool: createMarble(gridPos)
CreateMarble ==
  /\ marble = NoMarble
  /\ \E p \in StartPositions, now \in Timestamps, r \in RandomSamples :
       marble' = createMarble(p, now, r)
  /\ prev' = NoMarble
  /\ UNCHANGED <<trackPieces, ticks>>
  /\ UNCHANGED pageVars

\* the editor publishes another board
SupplyTrackPieces ==
  /\ \E b \in Boards : b # trackPieces /\ trackPieces' = b
  /\ prev' = NoMarble
  /\ UNCHANGED <<marble, ticks>>
  /\ UNCHANGED pageVars

\* one call of updateMarbleStateMachine(marble, trackPieces)
Step ==
  /\ marble # NoMarble
  /\ ticks < MaxTicks
  /\ \E r \in RandomSamples :
       marble' = updateMarbleStateMachine(marble, trackPieces, r)
  /\ prev' = marble
  /\ ticks' = ticks + 1
  /\ UNCHANGED trackPieces
  /\ UNCHANGED pageVars

Next ==
  \/ CreateMarble
  \/ SupplyTrackPieces
  \/ Step

Spec == Init /\ [][Next]_vars

(***************************************************************************)
(* Specification of single steps from any integer position: the marble     *)
(* starts anywhere in WidePositions, on an empty board or on a landing     *)
(* piece under it.                                                         *)
(***************************************************************************)
InitWide ==
  /\ \E p \in WidePositions, now \in Timestamps :
       /\ marble = createMarble(p, now, 0)
       /\ trackPieces \in {<< >>} \cup {<<Piece(p.x, p.y, n)>> : n \in LandingNames}
  /\ prev = NoMarble
  /\ ticks = 0
  /\ PageIdle

NextWide == Step

SpecWide == InitWide /\ [][NextWide]_vars

(***************************************************************************)
(* Specification of steps from any marble the engine can be handed: a      *)
(* rolling marble with any momentum, a falling or a behind marble, on any  *)
(* board of AnyBoards.                                                     *)
(***************************************************************************)
StraightNames == {"StrightX", "StrightY", "CrissCross"}

\* a straight piece in the corner, next to the edge of the wrapped range
EdgeStraightBoards == {<<Piece(10, 10, n)>> : n \in StraightNames}

AnyBoards == Boards \cup EdgeStraightBoards

AnyPositions == {Pos(0, 0), Pos(10, 10), Pos(-10, -10), Pos(1, 2)}

\* a marble value: behindCoordinates is the cell one gravity step back
MarbleAt(p, state, momentum, rotation, hue) ==
  [id |-> 1,
   gridPosition |-> p,
   state |-> state,
   momentum |-> momentum,
   rotation |-> rotation,
   hue |-> hue,
   behindCoordinates |->
     IF state = "behind"
       THEN Some(Pos(((p.x + 30) % 21) - 10, ((p.y + 30) % 21) - 10))
       ELSE Undefined]

InitAny ==
  /\ \E p \in AnyPositions, s \in MarbleStateType, mo \in MomentumDirection,
        rot \in {0, 345}, h \in {0, 359} :
       /\ s \in {"falling", "behind"} => mo = "0"
       /\ marble = MarbleAt(p, s, mo, rot, h)
  /\ trackPieces \in AnyBoards
  /\ prev = NoMarble
  /\ ticks = 0
  /\ PageIdle

NextAny == Step

SpecAny == InitAny /\ [][NextAny]_vars

(***************************************************************************)
(* Specification of steps from a marble whose momentum is none of the five *)
(* symbols.                                                                *)
(***************************************************************************)
MalformedMomenta == {"up", ""}

InitCorrupt ==
  /\ \E p \in AnyPositions, s \in MarbleStateType, mo \in MalformedMomenta,
        rot \in {0, 345}, h \in {0, 359} :
       marble = MarbleAt(p, s, mo, rot, h)
  /\ trackPieces \in AnyBoards
  /\ prev = NoMarble
  /\ ticks = 0
  /\ PageIdle

NextCorrupt == Step

SpecCorrupt == InitCorrupt /\ [][NextCorrupt]_vars

(***************************************************************************)
(* Specification of repeated ticks on a fixed board: the auto-mode timer   *)
(* steps a marble whose momentum is malformed, or that stands on or above  *)
(* a tile of unknown type, and keeps firing.                               *)
(***************************************************************************)
UnknownBoard == <<Piece(0, 0, UnknownName)>>

HealBoards ==
  {<< >>, UnknownBoard, <<Piece(0, 0, "CrissCross")>>, <<Piece(1, 2, "TurnXY")>>}

InitHeal ==
  /\ \/ /\ \E p \in {Pos(0, 0), Pos(-1, -1)}, s \in MarbleStateType,
              mo \in MalformedMomenta :
             marble = MarbleAt(p, s, mo, 0, 0)
        /\ trackPieces \in HealBoards
     \/ /\ \E p \in {Pos(0, 0), Pos(-1, -1)} :
             marble = MarbleAt(p, "falling", "0", 0, 0)
        /\ trackPieces = UnknownBoard
  /\ prev = NoMarble
  /\ ticks = 0
  /\ PageIdle

\* the interval callback of auto mode: one call of updateMarbleStateMachine
Tick ==
  /\ marble # NoMarble
  /\ \E r \in RandomSamples :
       marble' = updateMarbleStateMachine(marble, trackPieces, r)
  /\ prev' = marble
  /\ UNCHANGED <<trackPieces, ticks>>
  /\ UNCHANGED pageVars

NextHeal == Tick

SpecHeal == InitHeal /\ [][NextHeal]_vars /\ WF_vars(Tick)

(***************************************************************************)
(* Specification of steps of a behind marble that crosses the edge of the  *)
(* board: it starts on the last row or column, so the gravity step wraps   *)
(* it to the first one, and one tile lies near an edge.                    *)
(***************************************************************************)
EdgeCoords == {-10, -9, -1, 0, 9, 10}

OcclusionBoards ==
  {<<Piece(x, y, "StrightX")>> : x \in EdgeCoords, y \in EdgeCoords}

OcclusionStarts ==
  {Pos(10, y) : y \in {-10, -1, 9, 10}} \cup {Pos(x, 10) : x \in {-10, -1, 9}}

InitOcclusion ==
  /\ \E p \in OcclusionStarts : marble = MarbleAt(p, "behind", "0", 0, 0)
  /\ trackPieces \in OcclusionBoards
  /\ prev = NoMarble
  /\ ticks = 0
  /\ PageIdle

NextOcclusion == Step

SpecOcclusion == InitOcclusion /\ [][NextOcclusion]_vars

(***************************************************************************)
(* Specification of the page: the editor places, removes and drags tiles,  *)
(* marbles are dropped and cleared, and the Step button and the auto-mode  *)
(* timer tick all marbles.  One action is one DOM event or one timer       *)
(* firing: the handlers it calls read the state of the last render and     *)
(* their setState calls are applied in call order.  The mouse is over the  *)
(* centre of a cell of PageCells.                                          *)
(***************************************************************************)
\* ticks made by the page
MaxPageTicks == 2
\* the largest Date.now() value: the clock starts at 1 and every tile and
\* marble is created one millisecond or more after the one before, so
\* MaxClock - 1 tiles and marbles are created in all
MaxClock == 3

PageCells == {Pos(0, 0), Pos(1, 0)}

\* indices of SPRITE_TYPES the palette is clicked on: CrissCross, LandingPlusX
PageSpriteTypes == {1, 7}

\* Math.random() results of the page's marbles, in thousandths
PageDraws == {0, 999}

\* the effect of lines 194-202 after a render in which autoMode or marbles
\* changed: the interval it starts calls the stepMarbles of that render
Rearm(ms, sps, auto) ==
  IF auto /\ Len(ms) > 0 THEN Some(trackPiecesOf(sps)) ELSE Undefined

\* ids of the sprites whose screen position lies in the selection rectangle
spritesInSelection(start, end, sps) ==
  LET minX == IF start.x < end.x THEN start.x ELSE end.x
      maxX == IF start.x < end.x THEN end.x ELSE start.x
      minY == IF start.y < end.y THEN start.y ELSE end.y
      maxY == IF start.y < end.y THEN end.y ELSE start.y
      Inside(sprite) ==
        LET screenPos == gridToScreen(sprite.position)
        IN  /\ screenPos.x >= minX /\ screenPos.x <= maxX
            /\ screenPos.y >= minY /\ screenPos.y <= maxY
      hit == Filter(sps, Inside)
  IN  [k \in 1..Len(hit) |-> hit[k].id]

\* the effect of lines 134-161, run after a render in which one of its
\* dependencies changed
selectionEffect(uOld, spsOld, u, sps) ==
  IF /\ \/ u.isSelecting # uOld.isSelecting
        \/ u.selectionStart # uOld.selectionStart
        \/ u.selectionEnd # uOld.selectionEnd
        \/ sps # spsOld
     /\ u.isSelecting
     /\ u.selectionStart # Undefined
     /\ u.selectionEnd # Undefined
    THEN [u EXCEPT !.selectedSprites =
            spritesInSelection(u.selectionStart[1], u.selectionEnd[1], sps)]
    ELSE u

\* the record kept of a dragged sprite
DragData(sprite) == [id |-> sprite.id, originalPosition |-> sprite.position]

\* variant of moveDragged: a sprite is not dragged onto an occupied cell
moveDraggedOntoFreeCell(sps, id, gridPos) ==
  IF \E k \in 1..Len(sps) : sps[k].position = gridPos
    THEN sps
    ELSE [k \in 1..Len(sps) |->
            IF sps[k].id = id THEN [sps[k] EXCEPT !.position = gridPos]
                              ELSE sps[k]]

\* handleGridHover, move tool: the dragged sprite follows the mouse
moveDragged(sps, id, gridPos) ==
  [k \in 1..Len(sps) |->
     IF sps[k].id = id THEN [sps[k] EXCEPT !.position = gridPos] ELSE sps[k]]

\* handleGridHover, select tool: every sprite of the dragged selection is
\* put at its original position plus the mouse's offset
moveSelection(sps, data, deltaX, deltaY) ==
  [k \in 1..Len(sps) |->
     LET IsIt(d) == d.id = sps[k].id
         i == FirstIndex(data, IsIt)
     IN  IF i # 0
           THEN [sps[k] EXCEPT !.position =
                   Pos(data[i].originalPosition.x + deltaX,
                       data[i].originalPosition.y + deltaY)]
           ELSE sps[k]]

\* handleGridHover(gridPos): the new ui and sprites
handleGridHover(u, sps, gridPos) ==
  CASE u.activeTool = "place" ->
         [ui |-> [u EXCEPT !.previewPosition = Some(gridPos)], sprites |-> sps]
    [] u.activeTool = "marble" \/ (u.activeTool # "place" /\ u.isPlacingMarble) ->
         [ui |-> [u EXCEPT !.previewPosition = Some(gridPos)], sprites |-> sps]
    [] u.activeTool = "move" /\ ~u.isPlacingMarble ->
         [ui |-> IF u.isMouseDown /\ ~u.isDragging /\ u.draggedSpriteData # Undefined
                   THEN [u EXCEPT !.isDragging = TRUE] ELSE u,
          sprites |-> IF u.isDragging /\ u.draggedSpriteData # Undefined
                        THEN moveDragged(sps, u.draggedSpriteData[1].id, gridPos)
                        ELSE sps]
    [] u.activeTool = "select" /\ ~u.isPlacingMarble ->
         [ui |-> IF u.isMouseDown /\ ~u.isDragging /\ u.draggedSelectionData # Undefined
                   THEN [u EXCEPT !.isDragging = TRUE] ELSE u,
          sprites |-> IF /\ u.isDragging
                         /\ u.dragStartPosition # Undefined
                         /\ u.draggedSelectionData # Undefined
                        THEN moveSelection(sps, u.draggedSelectionData[1],
                                           gridPos.x - u.dragStartPosition[1].x,
                                           gridPos.y - u.dragStartPosition[1].y)
                        ELSE sps]

\* handleSpriteMouseDown(gridPos, spriteId), called with the state u of the
\* last render; acc is the ui the event has built so far
handleSpriteMouseDown(u, acc, sps, gridPos, spriteId) ==
  LET IsIt(sp) == sp.id = spriteId
      i == FirstIndex(sps, IsIt)
  IN  CASE u.activeTool = "move" ->
             IF i = 0 THEN acc
             ELSE [acc EXCEPT !.selectedSprite = Some(spriteId),
                              !.dragStartPosition = Some(sps[i].position),
                              !.draggedSpriteData = Some(DragData(sps[i])),
                              !.selectedSprites = << >>,
                              !.selectionStart = Undefined,
                              !.selectionEnd = Undefined]
        [] u.activeTool = "select" ->
             IF /\ \E n \in 1..Len(u.selectedSprites) : u.selectedSprites[n] = spriteId
                /\ Len(u.selectedSprites) > 1
               THEN LET Found(id) == \E k \in 1..Len(sps) : sps[k].id = id
                        ids == Filter(u.selectedSprites, Found)
                        DataOf(id) ==
                          LET Has(sp) == sp.id = id
                          IN  DragData(sps[FirstIndex(sps, Has)])
                    IN  [acc EXCEPT !.draggedSelectionData =
                                       Some([n \in 1..Len(ids) |-> DataOf(ids[n])]),
                                    !.dragStartPosition = Some(gridPos),
                                    !.isDragging = TRUE]
               ELSE [acc EXCEPT !.selectedSprites = << >>,
                                !.selectionStart = Undefined,
                                !.selectionEnd = Undefined]
        [] OTHER -> acc

\* handleScreenMouseDown(screenPos)
handleScreenMouseDown(u, acc, sps, screenPos) ==
  IF u.activeTool # "select" THEN acc
  ELSE LET gridPos == screenToGrid(screenPos)
           At(sp) == sp.position = gridPos
           i == FirstIndex(sps, At)
       IN  IF /\ i # 0
              /\ \E n \in 1..Len(u.selectedSprites) : u.selectedSprites[n] = sps[i].id
             THEN acc
             ELSE IF ~u.isDragging
                    THEN [acc EXCEPT !.isSelecting = TRUE,
                                     !.selectionStart = Some(screenPos),
                                     !.selectionEnd = Some(screenPos),
                                     !.selectedSprites = << >>]
                    ELSE acc

\* handleGridMouseUp and handleGlobalMouseUp
handleGridMouseUp(u, acc) ==
  LET a1 == [acc EXCEPT !.isMouseDown = FALSE]
      a2 == IF /\ u.isDragging
               /\ (u.draggedSpriteData # Undefined \/ u.draggedSelectionData # Undefined)
              THEN [a1 EXCEPT !.isDragging = FALSE,
                              !.selectedSprite = Undefined,
                              !.draggedSpriteData = Undefined,
                              !.draggedSelectionData = Undefined,
                              !.dragStartPosition = Undefined]
              ELSE a1
  IN  IF u.isSelecting THEN [a2 EXCEPT !.isSelecting = FALSE] ELSE a2

\* variant of placeSprite: a click on an occupied cell puts the new tile on
\* top of the old one
placeSpriteOnTop(sps, gridPos, type, now) ==
  Append(sps, [id |-> <<type.id, now>>, position |-> gridPos,
               blockName |-> type.blockName, hue |-> Undefined])

\* placeSprite(gridPos) with selectedSpriteType = type and Date.now() = now
placeSprite(sps, gridPos, type, now) ==
  LET At(sp) == sp.position = gridPos
      i == FirstIndex(sps, At)
      Others(sp) == sp.id # sps[i].id
  IN  IF i # 0
        THEN Filter(sps, Others)
        ELSE Append(sps, [id |-> <<type.id, now>>, position |-> gridPos,
                          blockName |-> type.blockName, hue |-> Undefined])

\* handleGridMouseLeave: the new ui and sprites
handleGridMouseLeave(u, sps) ==
  LET a1 == [u EXCEPT !.previewPosition = Undefined, !.isMouseDown = FALSE]
      Restore(data) ==
        [k \in 1..Len(sps) |->
           LET IsIt(d) == d.id = sps[k].id
               i == FirstIndex(data, IsIt)
           IN  IF i # 0 THEN [sps[k] EXCEPT !.position = data[i].originalPosition]
                        ELSE sps[k]]
  IN  IF ~u.isDragging THEN [ui |-> a1, sprites |-> sps]
      ELSE LET a2 == [a1 EXCEPT !.isDragging = FALSE,
                                !.selectedSprite = Undefined,
                                !.dragStartPosition = Undefined]
           IN  IF u.draggedSelectionData # Undefined
                 THEN [ui |-> [a2 EXCEPT !.draggedSelectionData = Undefined],
                       sprites |-> Restore(u.draggedSelectionData[1])]
                 ELSE IF u.draggedSpriteData # Undefined
                        THEN [ui |-> [a2 EXCEPT !.draggedSpriteData = Undefined],
                              sprites |-> Restore(<<u.draggedSpriteData[1]>>)]
                        ELSE [ui |-> a2, sprites |-> sps]

\* handleToolChange(tool)
handleToolChange(u, tool) ==
  [u EXCEPT !.activeTool = tool,
            !.isPlacingMarble = (tool = "marble"),
            !.selectedSprite = Undefined,
            !.isDragging = FALSE,
            !.draggedSpriteData = Undefined,
            !.draggedSelectionData = Undefined,
            !.dragStartPosition = Undefined,
            !.isSelecting = FALSE,
            !.selectionStart = Undefined,
            !.selectionEnd = Undefined,
            !.selectedSprites = << >>,
            !.previewPosition = Undefined]

\* the tile-hue update of stepMarbles (lines 212-241): a tile takes the hue
\* of the first new marble that is rolling, has a truthy hue, and whose id
\* first belongs to an old marble that stood on the tile
updateSpriteHues(sps, currentMarbles, newMarbles) ==
  [k \in 1..Len(sps) |->
     LET RollingFrom(newMarble) ==
           LET SameId(m) == m.id = newMarble.id
               i == FirstIndex(currentMarbles, SameId)
           IN  /\ i # 0
               /\ newMarble.hue # 0
               /\ currentMarbles[i].gridPosition = sps[k].position
               /\ newMarble.state = "rolling"
         j == FirstIndex(newMarbles, RollingFrom)
     IN  IF j # 0 THEN [sps[k] EXCEPT !.hue = Some(newMarbles[j].hue)]
                  ELSE sps[k]]

\* variant of stepAll: a marble is not stepped into a cell another marble
\* of the list stands in
stepAllBlockedByMarbles(ms, pieces, rs) ==
  [i \in 1..Len(ms) |->
     LET next == updateMarbleStateMachine(ms[i], pieces, rs[i])
     IN  IF \E j \in 1..Len(ms) : j # i /\ ms[j].gridPosition = next.gridPosition
           THEN ms[i] ELSE next]

\* variant of stepAll: the last marble of the list leaves the board
stepAllDropsLast(ms, pieces, rs) ==
  [i \in 1..(Len(ms) - 1) |-> updateMarbleStateMachine(ms[i], pieces, rs[i])]

\* currentMarbles.map(marble => updateMarbleStateMachine(marble, trackPieces))
stepAll(ms, pieces, rs) ==
  [i \in 1..Len(ms) |-> updateMarbleStateMachine(ms[i], pieces, rs[i])]

(***************************************************************************)
(* The sound manager (useSoundManager).  A Map is a function on its keys;  *)
(* the outcome of an audio.play() call is drawn by the action: the marble  *)
(* ids in failed are those whose first play() is rejected.                 *)
(***************************************************************************)
MapSet(m, key, value) ==
  [x \in DOMAIN m \cup {key} |-> IF x = key THEN value ELSE m[x]]

MapDelete(m, key) == [x \in DOMAIN m \ {key} |-> m[x]]

\* audio.removeEventListener(...) twice, audio.pause(), audio.currentTime = 0
silenced(audio) == [audio EXCEPT !.playing = FALSE, !.listening = FALSE]

\* playMarbleTap (lines 75-94)
playMarbleTap(s) ==
  IF ~s.enabledRef THEN s ELSE [s EXCEPT !.tapPlaying = TRUE]

\* startMarbleRoll (lines 96-158); played is the outcome of audio.play():
\* rejected, the catch handler sets the retry timeout
startMarbleRoll(s, marbleId, played) ==
  IF ~s.enabledRef THEN s
  ELSE IF marbleId \in DOMAIN s.rollingAudios THEN s
  ELSE [s EXCEPT
          !.audios = Append(@, [marbleId |-> marbleId, playing |-> played,
                                listening |-> TRUE, retry |-> ~played]),
          !.rollingAudios = MapSet(@, marbleId, Len(s.audios) + 1)]

\* stopMarbleRoll (lines 160-180)
stopMarbleRoll(s, marbleId) ==
  IF marbleId \notin DOMAIN s.rollingAudios THEN s
  ELSE [s EXCEPT
          !.audios[s.rollingAudios[marbleId]] = silenced(@),
          !.rollingAudios = MapDelete(@, marbleId)]

\* the body of marbles.forEach in updateMarbles (lines 189-211) for marble
\* states ms[i], ms[i+1], ...
RECURSIVE processMarbles(_, _, _, _)
processMarbles(s, ms, i, failed) ==
  IF i > Len(ms) THEN s
  ELSE LET marble_ == ms[i]
           known == marble_.id \in DOMAIN s.previousMarbles
           wasFalling == known /\ s.previousMarbles[marble_.id] = "falling"
           wasRolling == known /\ s.previousMarbles[marble_.id] = "rolling"
           s1 == IF wasFalling /\ marble_.state = "rolling"
                   THEN playMarbleTap(s) ELSE s
           s2 == IF marble_.state = "rolling" /\ ~wasRolling
                   THEN startMarbleRoll(s1, marble_.id, marble_.id \notin failed)
                   ELSE IF marble_.state # "rolling" /\ wasRolling
                     THEN stopMarbleRoll(s1, marble_.id)
                     ELSE s1
       IN  processMarbles(s2, ms, i + 1, failed)

\* stopMarbleRoll for every id of previousMarblesRef that is not current
RECURSIVE stopRemoved(_, _)
stopRemoved(s, ids) ==
  IF ids = {} THEN s
  ELSE LET id == Min(ids)
       IN  stopRemoved(stopMarbleRoll(s, id), ids \ {id})

\* updateMarbles (lines 182-223)
updateMarbles(s, ms, failed) ==
  IF ~s.enabledRef THEN s
  ELSE LET ids == {ms[i].id : i \in 1..Len(ms)}
           s1 == processMarbles(s, ms, 1, failed)
           s2 == stopRemoved(s1, DOMAIN s.previousMarbles \ ids)
       IN  [s2 EXCEPT !.previousMarbles =
              [id \in ids |->
                 ms[CHOOSE i \in 1..Len(ms) :
                      /\ ms[i].id = id
                      /\ \A j \in (i + 1)..Len(ms) : ms[j].id # id].state]]

\* setEnabled (lines 225-243); the effect of lines 56-73 does the same with
\* the enabled argument of the hook
setEnabled(s, newEnabled) ==
  IF newEnabled
    THEN [s EXCEPT !.enabledRef = TRUE]
    ELSE [s EXCEPT
            !.enabledRef = FALSE,
            !.tapPlaying = FALSE,
            !.audios = [a \in 1..Len(s.audios) |->
                          IF \E id \in DOMAIN s.rollingAudios :
                               s.rollingAudios[id] = a
                            THEN silenced(s.audios[a]) ELSE s.audios[a]],
            !.rollingAudios = << >>]

\* the effects of page.tsx lines 91-102 after a render with marble list ms:
\* soundManager is a new object in every render, so both effects run after
\* every render, setEnabled(soundEnabled) first
soundEffects(s, ms, failed) ==
  updateMarbles(setEnabled(s, s.soundEnabled),
                [i \in 1..Len(ms) |-> [id |-> ms[i].id, state |-> ms[i].state]],
                failed)

\* the marble ids for which the effects after a render call audio.play()
playCalls(s, ms) ==
  IF ~s.soundEnabled THEN {}
  ELSE {ms[i].id : i \in {j \in 1..Len(ms) :
          /\ ms[j].state = "rolling"
          /\ ~(/\ ms[j].id \in DOMAIN s.previousMarbles
               /\ s.previousMarbles[ms[j].id] = "rolling")}}

\* the render at the end of an event or timer callback and its effects
AfterRender ==
  \E failed \in SUBSET playCalls(sound, marbles') :
    sound' = soundEffects(sound, marbles', failed)

engineVars == <<marble, trackPieces, prev>>

UiOp == [NoOp EXCEPT !.op = "ui"]

\* the record of an operation of the editor on the tiles
EditOp(name, gridPos) ==
  [op |-> name, marbles |-> << >>, sprites |-> sprites, pieces |-> << >>,
   at |-> Some(gridPos)]

InitPage ==
  /\ marble = NoMarble
  /\ trackPieces = << >>
  /\ prev = NoMarble
  /\ ticks = 0
  /\ PageIdle

\* mousemove over the grid: handleGridHover, handleSelectionChange and
\* handleScreenMouseMove (lines 294-347, 376-380, 436-440)
MouseMove ==
  \E gridPos \in PageCells :
    LET h == handleGridHover(ui, sprites, gridPos)
        u2 == IF ui.isSelecting /\ ui.selectionStart # Undefined
                THEN [h.ui EXCEPT !.selectionEnd = Some(gridToScreen(gridPos))]
                ELSE h.ui
    IN  /\ sprites' = h.sprites
        /\ ui' = selectionEffect(ui, sprites, u2, h.sprites)
        /\ last' = IF h.sprites # sprites THEN EditOp("drag", gridPos) ELSE UiOp
        /\ UNCHANGED <<marbles, timerPieces, clock, ticks>>
        /\ UNCHANGED engineVars
        /\ AfterRender

\* mousedown over the grid: on a tile with the move or select tool the
\* tile's handleSpriteMouseDown runs first, then handleScreenMouseDown and
\* handleGridMouseDown of the container (lines 349-374, 504-561)
MouseDown ==
  \E gridPos \in PageCells :
    LET onTile == {k \in 1..Len(sprites) : sprites[k].position = gridPos}
        targets == IF ui.activeTool \in {"move", "select"} /\ onTile # {}
                     THEN onTile ELSE {0}
    IN  \E k \in targets :
          LET a1 == IF k = 0 THEN ui
                    ELSE handleSpriteMouseDown(ui, ui, sprites, gridPos, sprites[k].id)
              a2 == handleScreenMouseDown(ui, a1, sprites, gridToScreen(gridPos))
              a3 == [a2 EXCEPT !.isMouseDown = TRUE]
          IN  /\ ui' = selectionEffect(ui, sprites, a3, sprites)
              /\ last' = UiOp
              /\ UNCHANGED <<marbles, sprites, timerPieces, clock, ticks>>
              /\ UNCHANGED engineVars
              /\ AfterRender

\* mouseup over the grid: handleGridMouseUp, then handleGridClick, which
\* drops a marble or calls placeSprite (lines 247-292, 382-399); the
\* document's handleGlobalMouseUp (lines 165-176) makes the same resets
MouseUp ==
  \E gridPos \in PageCells :
    LET a1 == handleGridMouseUp(ui, ui)
    IN  IF ui.activeTool = "marble" \/ ui.isPlacingMarble
          THEN /\ \E now \in {clock + 1}, r \in PageDraws :
                    /\ now <= MaxClock
                    /\ marbles' = Append(marbles, createMarble(gridPos, now, r))
                    /\ clock' = now
               /\ ui' = [a1 EXCEPT !.isPlacingMarble = FALSE]
               /\ timerPieces' = Rearm(marbles', sprites, ui.autoMode)
               /\ last' = [op |-> "marble", marbles |-> marbles,
                           sprites |-> sprites, pieces |-> << >>,
                           at |-> Some(gridPos)]
               /\ UNCHANGED <<sprites, ticks>>
               /\ UNCHANGED engineVars
               /\ AfterRender
          ELSE IF ui.activeTool = "place" /\ ui.previewPosition = Some(gridPos)
            THEN /\ \E now \in {clock + 1} :
                      /\ sprites' = placeSprite(sprites, gridPos,
                                                SPRITE_TYPES[ui.selectedSpriteType], now)
                      /\ clock' = IF Len(sprites') > Len(sprites) THEN now ELSE clock
                      /\ clock' <= MaxClock
                 /\ ui' = selectionEffect(ui, sprites, a1, sprites')
                 /\ last' = EditOp("place", gridPos)
                 /\ UNCHANGED <<marbles, timerPieces, ticks>>
                 /\ UNCHANGED engineVars
                 /\ AfterRender
            ELSE /\ ui' = selectionEffect(ui, sprites, a1, sprites)
                 /\ last' = UiOp
                 /\ UNCHANGED <<marbles, sprites, timerPieces, clock, ticks>>
                 /\ UNCHANGED engineVars
                 /\ AfterRender

\* click on a tile with the move tool: handleSpriteClick (lines 469-485)
SpriteClick ==
  /\ ui.activeTool = "move"
  /\ \E k \in 1..Len(sprites) :
       LET IsIt(sp) == sp.id = sprites[k].id
           i == FirstIndex(sprites, IsIt)
       IN  ui' = [ui EXCEPT !.selectedSprite = Some(sprites[k].id),
                            !.dragStartPosition = Some(sprites[k].position),
                            !.draggedSpriteData = Some(DragData(sprites[i]))]
  /\ last' = UiOp
  /\ UNCHANGED <<marbles, sprites, timerPieces, clock, ticks>>
  /\ UNCHANGED engineVars
  /\ AfterRender

\* the mouse leaves the grid: handleGridMouseLeave (lines 401-434)
MouseLeave ==
  LET h == handleGridMouseLeave(ui, sprites)
  IN  /\ sprites' = h.sprites
      /\ ui' = selectionEffect(ui, sprites, h.ui, h.sprites)
      /\ last' = IF h.sprites # sprites THEN [NoOp EXCEPT !.op = "cancel",
                                                         !.sprites = sprites]
                                        ELSE UiOp
      /\ UNCHANGED <<marbles, timerPieces, clock, ticks>>
      /\ UNCHANGED engineVars
      /\ AfterRender

\* a tool button of the sidebar, while the board is edited: handleToolChange
\* (lines 443-456)
EditorToolChange ==
  /\ \E tool \in {"place", "move", "select"} : ui' = handleToolChange(ui, tool)
  /\ last' = UiOp
  /\ UNCHANGED <<marbles, sprites, timerPieces, clock, ticks>>
  /\ UNCHANGED engineVars
  /\ AfterRender

\* a tool button of the sidebar, while marbles run: handleToolChange
DriverToolChange ==
  /\ \E tool \in {"place", "marble"} : ui' = handleToolChange(ui, tool)
  /\ last' = UiOp
  /\ UNCHANGED <<marbles, sprites, timerPieces, clock, ticks>>
  /\ UNCHANGED engineVars
  /\ AfterRender

\* a palette button of the sidebar: handleSpriteTypeChange (lines 458-460)
SpriteTypeChange ==
  /\ \E i \in PageSpriteTypes : ui' = [ui EXCEPT !.selectedSpriteType = i]
  /\ last' = UiOp
  /\ UNCHANGED <<marbles, sprites, timerPieces, clock, ticks>>
  /\ UNCHANGED engineVars
  /\ AfterRender

\* the clear button: onClearMarbles (line 593), enabled while marbles exist
ClearMarbles ==
  /\ Len(marbles) > 0
  /\ marbles' = << >>
  /\ timerPieces' = Rearm(marbles', sprites, ui.autoMode)
  /\ last' = [NoOp EXCEPT !.op = "clear", !.marbles = marbles]
  /\ UNCHANGED <<sprites, ui, clock, ticks>>
  /\ UNCHANGED engineVars
  /\ AfterRender

\* the reset-colours button: onResetColors (lines 594-598)
ResetColors ==
  /\ Len(sprites) > 0
  /\ sprites' = [k \in 1..Len(sprites) |-> [sprites[k] EXCEPT !.hue = Undefined]]
  /\ ui' = selectionEffect(ui, sprites, ui, sprites')
  /\ last' = [NoOp EXCEPT !.op = "reset", !.sprites = sprites]
  /\ UNCHANGED <<marbles, timerPieces, clock, ticks>>
  /\ UNCHANGED engineVars
  /\ AfterRender

\* the auto-mode checkbox: setAutoMode (line 601) and the timer effect
SetAutoMode ==
  /\ ui' = [ui EXCEPT !.autoMode = ~ui.autoMode]
  /\ timerPieces' = Rearm(marbles, sprites, ~ui.autoMode)
  /\ last' = UiOp
  /\ UNCHANGED <<marbles, sprites, clock, ticks>>
  /\ UNCHANGED engineVars
  /\ AfterRender

\* stepMarbles (lines 205-245) called with the trackPieces it closed over,
\* while fewer than maxTicks ticks were made
stepMarblesWithin(pieces, name, maxTicks) ==
  /\ ticks < maxTicks
  /\ \E rs \in [1..Len(marbles) -> PageDraws] :
       marbles' = stepAll(marbles, pieces, rs)
  /\ sprites' = updateSpriteHues(sprites, marbles, marbles')
  /\ ui' = selectionEffect(ui, sprites, ui, sprites')
  /\ timerPieces' = Rearm(marbles', sprites', ui.autoMode)
  /\ last' = [op |-> name, marbles |-> marbles, sprites |-> sprites,
              pieces |-> pieces, at |-> Undefined]
  /\ ticks' = ticks + 1
  /\ UNCHANGED clock
  /\ UNCHANGED engineVars
  /\ AfterRender

stepMarbles(pieces, name) == stepMarblesWithin(pieces, name, MaxPageTicks)

\* the Step button, enabled while marbles exist: the stepMarbles of the
\* last render
ManualStep ==
  /\ Len(marbles) > 0
  /\ stepMarbles(trackPiecesOf(sprites), "step")

\* the interval of auto mode fires: the stepMarbles of the render that
\* started the interval
TimerTick ==
  /\ timerPieces # Undefined
  /\ stepMarbles(timerPieces[1], "timer")

(***************************************************************************)
(* The editor alone: tiles are placed, removed and dragged with the place, *)
(* move and select tools; no marble is on the board.                       *)
(***************************************************************************)
NextEditor ==
  \/ MouseMove
  \/ MouseDown
  \/ MouseUp
  \/ SpriteClick
  \/ MouseLeave
  \/ EditorToolChange
  \/ SpriteTypeChange

SpecEditor == InitPage /\ [][NextEditor]_vars

(***************************************************************************)
(* The driver: tiles are placed and removed with the place tool, marbles   *)
(* are dropped and cleared, and the Step button and the auto-mode timer    *)
(* tick them.                                                              *)
(***************************************************************************)
NextPage ==
  \/ MouseMove
  \/ MouseUp
  \/ DriverToolChange
  \/ ClearMarbles
  \/ ResetColors
  \/ SetAutoMode
  \/ ManualStep
  \/ TimerTick

SpecPage == InitPage /\ [][NextPage]_vars

(***************************************************************************)
(* The page with sound: on a board of two landing tiles a marble is        *)
(* dropped, stepped and cleared while the Sound checkbox is switched on    *)
(* and off and the Audio elements of the roll sounds report back.          *)
(***************************************************************************)
\* ticks made by the page with sound: a marble dropped on the first tile
\* rolls off it, falls on the second tile and rolls again
MaxSoundTicks == 3

\* LandingPlusX at (0,0) and at (2,1), placed with the place tool
SoundBoard ==
  placeSprite(placeSprite(<< >>, Pos(0, 0), SPRITE_TYPES[7], MaxClock - 2),
              Pos(2, 1), SPRITE_TYPES[7], MaxClock - 1)

\* the board is built, the marble tool is chosen and the clock leaves room
\* for one marble
InitSound ==
  /\ marble = NoMarble
  /\ trackPieces = << >>
  /\ prev = NoMarble
  /\ ticks = 0
  /\ marbles = << >>
  /\ sprites = SoundBoard
  /\ ui = handleToolChange(InitialUi, "marble")
  /\ timerPieces = Undefined
  /\ clock = MaxClock - 1
  /\ last = NoOp
  /\ sound = InitialSound

\* the Step button, within the ticks of the page with sound
SoundStep ==
  /\ Len(marbles) > 0
  /\ stepMarblesWithin(trackPiecesOf(sprites), "step", MaxSoundTicks)

\* the Sound checkbox: setSoundEnabled (line 603), the render and its effects
SoundEnabledChange ==
  /\ \E failed \in SUBSET playCalls([sound EXCEPT !.soundEnabled = ~@], marbles) :
       sound' = soundEffects([sound EXCEPT !.soundEnabled = ~@], marbles, failed)
  /\ last' = UiOp
  /\ UNCHANGED <<marbles, sprites, ui, timerPieces, clock, ticks>>
  /\ UNCHANGED engineVars

\* audio.play() of Audio element a from a callback: it is called when the
\* marble id the element was made for is registered and sound is enabled
playFromCallback(s, a, played) ==
  IF /\ s.audios[a].marbleId \in DOMAIN s.rollingAudios
     /\ s.enabledRef
     /\ played
    THEN [s EXCEPT !.audios[a].playing = TRUE]
    ELSE s

\* the timeout set by the catch handler of a rejected play() fires
\* (lines 149-154)
RetryFires ==
  /\ \E a \in 1..Len(sound.audios), played \in BOOLEAN :
       /\ sound.audios[a].retry
       /\ sound' = playFromCallback([sound EXCEPT !.audios[a].retry = FALSE],
                                    a, played)
  /\ UNCHANGED <<marbles, sprites, ui, timerPieces, clock, last, ticks>>
  /\ UNCHANGED engineVars

\* canplaythrough of an Audio element that does not play yet: onCanPlay
\* (lines 129-133)
CanPlayThrough ==
  /\ \E a \in 1..Len(sound.audios), played \in BOOLEAN :
       /\ sound.audios[a].listening
       /\ ~sound.audios[a].playing
       /\ sound' = playFromCallback(sound, a, played)
  /\ UNCHANGED <<marbles, sprites, ui, timerPieces, clock, last, ticks>>
  /\ UNCHANGED engineVars

\* the one-shot tap sound reaches its end
TapEnds ==
  /\ sound.tapPlaying
  /\ sound' = [sound EXCEPT !.tapPlaying = FALSE]
  /\ UNCHANGED <<marbles, sprites, ui, timerPieces, clock, last, ticks>>
  /\ UNCHANGED engineVars

NextSound ==
  \/ MouseUp
  \/ ClearMarbles
  \/ SoundStep
  \/ SoundEnabledChange
  \/ RetryFires
  \/ CanPlayThrough
  \/ TapEnds

SpecSound == InitSound /\ [][NextSound]_vars

(***************************************************************************)
(* The projection: the mouse moves over the point where the page draws a   *)
(* cell, with the place tool or the marble tool chosen.                    *)
(***************************************************************************)
\* the cells the mouse visits have coordinates in -MaxCell..MaxCell
MaxCell == 5

ProjectionCells == {Pos(x, y) : x \in -MaxCell..MaxCell, y \in -MaxCell..MaxCell}

InitProjection ==
  /\ marble = NoMarble
  /\ trackPieces = << >>
  /\ prev = NoMarble
  /\ ticks = 0
  /\ marbles = << >>
  /\ sprites = << >>
  /\ ui \in {InitialUi, handleToolChange(InitialUi, "marble")}
  /\ timerPieces = Undefined
  /\ clock = 1
  /\ last = NoOp
  /\ sound = InitialSound

\* mousemove at the screen point of cell p: handleContainerMouseMove
\* (IsometricGrid.tsx, lines 124-149) computes the cell with screenToGrid
\* and calls handleGridHover and handleSelectionChange with it
HoverAt ==
  \E p \in ProjectionCells :
    LET screenPos == gridToScreen(p)
        gridPos == screenToGrid(screenPos)
        h == handleGridHover(ui, sprites, gridPos)
        u2 == IF ui.isSelecting /\ ui.selectionStart # Undefined
                THEN [h.ui EXCEPT !.selectionEnd = Some(screenPos)]
                ELSE h.ui
    IN  /\ sprites' = h.sprites
        /\ ui' = selectionEffect(ui, sprites, u2, h.sprites)
        /\ last' = [NoOp EXCEPT !.op = "hover", !.at = Some(p)]
        /\ UNCHANGED <<marbles, timerPieces, clock, ticks>>
        /\ UNCHANGED engineVars
        /\ AfterRender

NextProjection == HoverAt

SpecProjection == InitProjection /\ [][NextProjection]_vars

TypeOK ==
  /\ ticks \in 0..MaxTicks
  /\ marble # NoMarble =>
       /\ marble.state \in MarbleStateType
       /\ marble.momentum \in MomentumDirection

(***************************************************************************)
(* Vocabulary of the properties, written from the specification            *)
(***************************************************************************)
\* the last operation was a step: marble is the step of prev on trackPieces
Stepped == prev # NoMarble

InRange(p) == p.x \in -10..10 /\ p.y \in -10..10

\* a coordinate on the torus: ((c + 10) mod 21) - 10, mod never negative
TorusCoord(c) == ((c + 10) % 21) - 10

TorusPos(x, y) == Pos(TorusCoord(x), TorusCoord(y))

\* the cell one gravity step further, (+1,+1) on the torus
FallTarget(p) == TorusPos(p.x + 1, p.y + 1)

UnitVector(momentum) ==
  CASE momentum = "+x" -> <<1, 0>>
    [] momentum = "-x" -> <<-1, 0>>
    [] momentum = "+y" -> <<0, 1>>
    [] momentum = "-y" -> <<0, -1>>
    [] OTHER -> <<0, 0>>

RollTarget(p, momentum) ==
  TorusPos(p.x + UnitVector(momentum)[1], p.y + UnitVector(momentum)[2])

SixOffsets == {<<-1, 0>>, <<0, -1>>, <<-1, -1>>, <<-2, -1>>, <<-1, -2>>, <<-2, -2>>}

TileCellsOf(pieces) == {pieces[i].position : i \in 1..Len(pieces)}

\* some tile sits at p plus one of the six offsets
Covered(p, pieces) ==
  \E o \in SixOffsets : Pos(p.x + o[1], p.y + o[2]) \in TileCellsOf(pieces)

HasTile(p, pieces) == p \in TileCellsOf(pieces)

\* the hue after a shift of d degrees, d in [30,140]
HueShifts(hue) == {(hue + d) % 360 : d \in 30..140}

\* the outputs the registry allows for a tile type and an incoming momentum:
\* those of the first rule for that momentum, else those of the default
RangeOf(s) == {s[i] : i \in 1..Len(s)}

AllowedOutputs(name, input) ==
  LET b == CHOOSE t \in RangeOf(BLOCK_TYPES) : t.blockName = name
      rules == {i \in 1..Len(b.conditionalOutputs) :
                  b.conditionalOutputs[i].inputMomentum = input}
  IN  IF rules = {}
        THEN RangeOf(b.defaultOutputMomentum.values)
        ELSE RangeOf(b.conditionalOutputs[Min(rules)].outputMomentum.values)

\* the marble's cell and the eight cells around it, where occlusion is probed
ProbeCells(p) == {Pos(p.x + dx, p.y + dy) : dx \in -1..1, dy \in -1..1}

(***************************************************************************)
(* Properties                                                              *)
(***************************************************************************)
\* C1: in every reachable marble state, momentum is "0" whenever the state
\* is falling or behind, and behindCoordinates is defined exactly when the
\* state is behind.
C1_StateInvariant ==
  marble # NoMarble =>
    /\ marble.state \in {"falling", "behind"} => marble.momentum = "0"
    /\ marble.behindCoordinates # Undefined <=> marble.state = "behind"

\* a step has taken a rolling marble into behind
C1_Witness ==
  /\ Stepped
  /\ prev.state = "rolling"
  /\ prev.momentum = "-y"
  /\ marble.state = "behind"

\* C2: from every integer position, inside or outside the bound, a step
\* that moves the marble leaves both coordinates in [-10,10], and a marble
\* inside the range stays inside it.
C2_WrapInvariant ==
  Stepped =>
    /\ marble.gridPosition # prev.gridPosition => InRange(marble.gridPosition)
    /\ InRange(prev.gridPosition) => InRange(marble.gridPosition)

\* a marble more than one period below the range rolled in the -x direction
C2_Witness ==
  /\ Stepped
  /\ prev.gridPosition.x < -31
  /\ prev.gridPosition.y > 31
  /\ marble.momentum = "-x"
  /\ InRange(marble.gridPosition)

\* C3: wrapGridPosition maps every coordinate c to ((c + 10) mod 21) - 10:
\* the position a step produces is the unwrapped target of the move taken
\* to the torus; it is the identity on [-10,10], 11 goes to -10 and -11 to 10.
C3_WrapFormula ==
  Stepped =>
    LET v == IF marble.state = "rolling"
               THEN UnitVector(marble.momentum) ELSE <<1, 1>>
        tx == prev.gridPosition.x + v[1]
        ty == prev.gridPosition.y + v[2]
    IN  /\ marble.gridPosition = TorusPos(tx, ty)
        /\ tx \in -10..10 => marble.gridPosition.x = tx
        /\ ty \in -10..10 => marble.gridPosition.y = ty
        /\ tx = 11 => marble.gridPosition.x = -10
        /\ tx = -11 => marble.gridPosition.x = 10
        /\ ty = 11 => marble.gridPosition.y = -10
        /\ ty = -11 => marble.gridPosition.y = 10

\* a move from (-33,33) to x = -34 or to y = 34, more than one period outside
C3_Witness ==
  /\ Stepped
  /\ prev.gridPosition = Pos(-33, 33)
  /\ marble.state = "rolling"
  /\ marble.gridPosition \in {Pos(8, -9), Pos(9, -8)}

\* C4: a behind marble is handled before any tile lookup: whatever tile is
\* at its position, the step moves it by (+1,+1) on the torus with momentum
\* "0"; it never rolls and never takes the tile's output momentum.
C4_BehindFirst ==
  (Stepped /\ prev.state = "behind") =>
    /\ marble.gridPosition = FallTarget(prev.gridPosition)
    /\ marble.momentum = "0"
    /\ marble.state # "rolling"
    /\ marble.rotation = prev.rotation

\* a behind marble standing on a tile was stepped
C4_Witness ==
  /\ Stepped
  /\ prev.state = "behind"
  /\ HasTile(prev.gridPosition, trackPieces)
  /\ marble.state = "behind"

\* C5: for a behind marble the occlusion test is made at the new position
\* against the current tiles: not occluded, it becomes falling with hue
\* (hue + d) mod 360, d in [30,140], and behindCoordinates cleared;
\* occluded, it stays behind there with hue and behindCoordinates unchanged.
C5_BehindOcclusion ==
  (Stepped /\ prev.state = "behind") =>
    LET np == FallTarget(prev.gridPosition)
    IN  /\ marble.gridPosition = np
        /\ IF Covered(np, trackPieces)
             THEN /\ marble.state = "behind"
                  /\ marble.hue = prev.hue
                  /\ marble.behindCoordinates = prev.behindCoordinates
             ELSE /\ marble.state = "falling"
                  /\ marble.hue \in HueShifts(prev.hue)
                  /\ marble.behindCoordinates = Undefined

\* a behind marble whose old position was still occluded came out at the new one
C5_Witness ==
  /\ Stepped
  /\ prev.state = "behind"
  /\ Covered(prev.gridPosition, trackPieces)
  /\ marble.state = "falling"
  /\ marble.behindCoordinates = Undefined

\* C6: isMarbleOccluded(p, tiles) holds exactly when some tile sits at p
\* plus one of the six offsets; a tile at p itself does not occlude p, and a
\* behind marble arriving on a tile with no tile at the six offsets falls.
C6_OcclusionOffsets ==
  /\ marble # NoMarble =>
       \A p \in ProbeCells(marble.gridPosition) :
         isMarbleOccluded(p, trackPieces) <=> Covered(p, trackPieces)
  /\ (Stepped /\ prev.state = "behind") =>
       (marble.state = "behind" <=> Covered(marble.gridPosition, trackPieces))

\* a behind marble arrived on a tile that no tile occludes and became falling
C6_Witness ==
  /\ Stepped
  /\ prev.state = "behind"
  /\ HasTile(marble.gridPosition, trackPieces)
  /\ ~Covered(marble.gridPosition, trackPieces)
  /\ marble.state = "falling"

\* C7: a marble that is not behind and stands on a tile of a known type
\* rolls: its momentum is resolved from its incoming momentum and the
\* tile's behaviour, and it moves from its old position by the unit vector
\* of the resolved momentum, on the torus.
C7_RollOnTile ==
  (/\ Stepped
   /\ prev.state # "behind"
   /\ HasTile(prev.gridPosition, trackPieces)
   /\ getTrackAt(prev.gridPosition, trackPieces)[1].blockName \in RegistryNames) =>
    LET name == getTrackAt(prev.gridPosition, trackPieces)[1].blockName
    IN  /\ marble.state = "rolling"
        /\ marble.momentum \in AllowedOutputs(name, prev.momentum)
        /\ marble.gridPosition = RollTarget(prev.gridPosition, marble.momentum)

\* a rolling marble was turned by the tile it entered
C7_Witness ==
  /\ Stepped
  /\ prev.state = "rolling"
  /\ prev.momentum = "-x"
  /\ HasTile(prev.gridPosition, trackPieces)
  /\ marble.state = "rolling"
  /\ marble.momentum = "+y"

\* C8: a rolling marble with momentum -x or -y on no tile becomes behind:
\* momentum "0", behindCoordinates its position before the step, position
\* advanced by (+1,+1) on the torus, hue unchanged, whether or not the new
\* position is occluded.
C8_BackwardRollOff ==
  (/\ Stepped
   /\ prev.state = "rolling"
   /\ prev.momentum \in {"-x", "-y"}
   /\ ~HasTile(prev.gridPosition, trackPieces)) =>
    /\ marble.state = "behind"
    /\ marble.momentum = "0"
    /\ marble.behindCoordinates = Some(prev.gridPosition)
    /\ marble.gridPosition = FallTarget(prev.gridPosition)
    /\ marble.hue = prev.hue

\* a marble rolled off backwards into behind at a position nothing occludes
C8_Witness ==
  /\ Stepped
  /\ prev.state = "rolling"
  /\ prev.momentum = "-x"
  /\ ~HasTile(prev.gridPosition, trackPieces)
  /\ ~Covered(marble.gridPosition, trackPieces)
  /\ marble.state = "behind"

\* C9: a marble that is not behind, stands on no tile and is not rolling
\* with momentum -x or -y becomes falling with momentum "0",
\* behindCoordinates undefined and position advanced by (+1,+1) on the torus;
\* from (5,5) it goes to (6,6) and from (10,10) to (-10,-10).
C9_FreeFall ==
  (/\ Stepped
   /\ prev.state # "behind"
   /\ ~HasTile(prev.gridPosition, trackPieces)
   /\ ~(prev.state = "rolling" /\ prev.momentum \in {"-x", "-y"})) =>
    /\ marble.state = "falling"
    /\ marble.momentum = "0"
    /\ marble.behindCoordinates = Undefined
    /\ marble.gridPosition = FallTarget(prev.gridPosition)
    /\ prev.gridPosition = Pos(5, 5) => marble.gridPosition = Pos(6, 6)
    /\ prev.gridPosition = Pos(10, 10) => marble.gridPosition = Pos(-10, -10)

\* a marble rolled forward off the corner tile and fell across the edge
C9_Witness ==
  /\ Stepped
  /\ prev.state = "rolling"
  /\ prev.momentum = "+y"
  /\ ~HasTile(prev.gridPosition, trackPieces)
  /\ marble.state = "falling"
  /\ marble.gridPosition.x < prev.gridPosition.x

\* C10: the hue changes in a step exactly when the step takes the marble
\* into falling from another state; the new hue is then (old hue + d) mod 360
\* with d in [30,140]; every other step leaves the hue unchanged.
C10_HueFrame ==
  Stepped =>
    IF marble.state = "falling" /\ prev.state # "falling"
      THEN marble.hue \in HueShifts(prev.hue) /\ marble.hue # prev.hue
      ELSE marble.hue = prev.hue

\* the largest shift, 140 degrees, taken across 360
C10_Witness ==
  /\ Stepped
  /\ prev.state = "rolling"
  /\ marble.state = "falling"
  /\ marble.hue = (prev.hue + 140) % 360
  /\ marble.hue < prev.hue

(***************************************************************************)
(* Vocabulary of the registry properties                                   *)
(***************************************************************************)
\* the marble stepped from a tile and was not behind
SteppedOnTile ==
  /\ Stepped
  /\ prev.state # "behind"
  /\ HasTile(prev.gridPosition, trackPieces)

\* the type of the tile the marble stepped from
TileName == getTrackAt(prev.gridPosition, trackPieces)[1].blockName

Entry(name) == CHOOSE t \in RangeOf(BLOCK_TYPES) : t.blockName = name

\* the declared default set of a tile type
DefaultSet(name) == RangeOf(Entry(name).defaultOutputMomentum.values)

\* the input momenta a tile type has a conditional rule for
RuleInputs(name) ==
  {Entry(name).conditionalOutputs[i].inputMomentum :
     i \in 1..Len(Entry(name).conditionalOutputs)}

\* the first rule of a tile type for an input momentum
FirstRule(name, input) ==
  LET rules == Entry(name).conditionalOutputs
  IN  rules[Min({i \in 1..Len(rules) : rules[i].inputMomentum = input})]

LandingDirection(name) ==
  CASE name = "LandingPlusX" -> "+x"
    [] name = "LandingMinusX" -> "-x"
    [] name = "LandingPlusY" -> "+y"
    [] name = "LandingMinusY" -> "-y"

\* the axis directions of a straight tile
StraightAxis(name) ==
  CASE name = "StrightX" -> {"+x", "-x"}
    [] name = "StrightY" -> {"+y", "-y"}
    [] name = "CrissCross" -> {"+x", "-x", "+y", "-y"}

TurnNames == {"TurnXY", "TurnXMinusY", "TurnYMinusX", "TurnMinusXMinusY"}

ThreeWayNames == {"TPlusX", "TMinusX", "TPlusY", "TMinusY"}

\* C11: the first conditional rule for the incoming momentum decides the
\* output and the default is not consulted: a single-valued rule gives
\* exactly its value, a set-valued rule one of its values; the default set
\* is used only when no rule matches.  StrightX entered with +x gives +x.
C11_ConditionalPrecedence ==
  (SteppedOnTile /\ TileName \in RegistryNames) =>
    /\ IF prev.momentum \in RuleInputs(TileName)
         THEN LET out == FirstRule(TileName, prev.momentum).outputMomentum
              IN  /\ marble.momentum \in RangeOf(out.values)
                  /\ ~out.isArray => marble.momentum = out.values[1]
         ELSE marble.momentum \in DefaultSet(TileName)
    /\ (TileName = "StrightX" /\ prev.momentum = "+x") => marble.momentum = "+x"

\* a marble rolling in +x direction went over a StrightX tile
C11_Witness ==
  /\ SteppedOnTile
  /\ TileName = "StrightX"
  /\ prev.state = "rolling"
  /\ prev.momentum = "+x"
  /\ marble.momentum = "+x"

\* C12: for every registry tile and every input momentum none of its rules
\* matches, "0" included, the resolved momentum is an element of the tile's
\* declared default set; a landing tile gives its fixed direction for every
\* input.
C12_DefaultSetOnly ==
  (SteppedOnTile /\ TileName \in RegistryNames) =>
    /\ prev.momentum \notin RuleInputs(TileName) =>
         marble.momentum \in DefaultSet(TileName)
    /\ TileName \in LandingNames => marble.momentum = LandingDirection(TileName)

\* a marble landing from free fall on the 4-way junction took its last exit
C12_Witness ==
  /\ SteppedOnTile
  /\ TileName = "CrissCross"
  /\ prev.state = "falling"
  /\ prev.momentum = "0"
  /\ marble.momentum = "-y"

\* C13: a marble that is not behind and enters a straight tile along the
\* tile's axis keeps its momentum, is rolling afterwards and advances one
\* cell in that direction on the torus; +x gives (+1,0).
C13_StraightPassThrough ==
  (/\ SteppedOnTile
   /\ TileName \in StraightNames
   /\ prev.momentum \in StraightAxis(TileName)) =>
    /\ marble.momentum = prev.momentum
    /\ marble.state = "rolling"
    /\ marble.gridPosition = RollTarget(prev.gridPosition, prev.momentum)
    /\ prev.momentum = "+x" =>
         marble.gridPosition =
           TorusPos(prev.gridPosition.x + 1, prev.gridPosition.y)

\* a marble went in +x direction over a StrightX tile in the corner and
\* came out on the other side of the board
C13_Witness ==
  /\ SteppedOnTile
  /\ TileName = "StrightX"
  /\ prev.momentum = "+x"
  /\ prev.gridPosition = Pos(10, 10)
  /\ marble.gridPosition = Pos(-10, 10)

\* C14: on every turn tile, 3-way junction and the 4-way junction, an
\* incoming momentum that is one of the tile's open exits (an element of its
\* default set) is kept.
C14_OpenExitKept ==
  (/\ SteppedOnTile
   /\ TileName \in TurnNames \cup ThreeWayNames \cup {"CrissCross"}
   /\ prev.momentum \in DefaultSet(TileName)) =>
    marble.momentum = prev.momentum

\* C16: a marble that is not behind and stands on a tile of a type the
\* registry does not hold passes through as in free fall: its position
\* advances by (+1,+1) on the torus.
C16_UnknownTileFalls ==
  (SteppedOnTile /\ TileName \notin RegistryNames) =>
    marble.gridPosition = FallTarget(prev.gridPosition)

\* C19: createMarble(p) gives a marble at p, falling, with momentum "0",
\* rotation 0, an integer hue in [0,359] and no behindCoordinates.
C19_CreateMarble ==
  (marble # NoMarble /\ ticks = 0) =>
    /\ marble.gridPosition \in StartPositions
    /\ marble.state = "falling"
    /\ marble.momentum = "0"
    /\ marble.rotation = 0
    /\ marble.hue \in 0..359
    /\ marble.behindCoordinates = Undefined

\* a marble was created outside the wrapped range with the largest hue
C19_Witness ==
  /\ marble # NoMarble
  /\ ticks = 0
  /\ marble.gridPosition = Pos(31, -32)
  /\ marble.hue = 359

\* C17: a step on a marble whose momentum is none of the five symbols
\* behaves as the step of the same marble with momentum "0": with the same
\* draw it gives the same state, position and momentum, and the momentum it
\* returns is one of the five symbols.
C17_MalformedAsZero ==
  (Stepped /\ prev.momentum \notin MomentumDirection) =>
    /\ \E r \in RandomSamples :
         LET got == updateMarbleStateMachine(prev, trackPieces, r)
             asZero == updateMarbleStateMachine([prev EXCEPT !.momentum = "0"],
                                                trackPieces, r)
         IN  /\ marble = got
             /\ got.state = asZero.state
             /\ got.gridPosition = asZero.gridPosition
             /\ got.momentum = asZero.momentum
    /\ marble.momentum \in MomentumDirection

\* C18: under repeated ticks on a fixed board a marble with malformed
\* momentum, or on a tile of unknown type, never remains in the same cell
\* forever: again and again a tick moves it.
C18_SelfHealing ==
  []<>(~Stepped \/ marble.gridPosition # prev.gridPosition)

(***************************************************************************)
(* State edges, rotation, hue range, motion and the turns                  *)
(***************************************************************************)
StateEdges ==
  {<<"falling", "falling">>, <<"falling", "rolling">>,
   <<"rolling", "rolling">>, <<"rolling", "falling">>, <<"rolling", "behind">>,
   <<"behind", "behind">>, <<"behind", "falling">>}

AllTilesKnown ==
  \A i \in 1..Len(trackPieces) : trackPieces[i].blockName \in RegistryNames

Opposite(momentum) ==
  CASE momentum = "+x" -> "-x"
    [] momentum = "-x" -> "+x"
    [] momentum = "+y" -> "-y"
    [] momentum = "-y" -> "+y"

\* C26: a marble is always in one of the three states, and a step changes
\* the state only along the edges falling -> falling, rolling; rolling ->
\* rolling, falling, behind; behind -> behind, falling.
C26_StateEdges ==
  /\ marble.state \in MarbleStateType
  /\ Stepped => <<prev.state, marble.state>> \in StateEdges

\* a rolling marble went behind
C26_Witness ==
  /\ Stepped
  /\ prev.state = "rolling"
  /\ marble.state = "behind"

\* C27: rotation is a multiple of 15 in [0,360); a step that ends in
\* rolling on a tile of a known type adds 15 modulo 360, every other step
\* keeps the rotation.
C27_Rotation ==
  /\ marble.rotation \in 0..359
  /\ marble.rotation % 15 = 0
  /\ Stepped =>
       IF SteppedOnTile /\ TileName \in RegistryNames
         THEN /\ marble.state = "rolling"
              /\ marble.rotation = (prev.rotation + 15) % 360
         ELSE marble.rotation = prev.rotation

\* a rolling step took the rotation from 345 to 0
C27_Witness ==
  /\ SteppedOnTile
  /\ prev.rotation = 345
  /\ marble.state = "rolling"
  /\ marble.rotation = 0

\* C28: from createMarble on, the hue is an integer in [0,359]; a hue shift
\* gives (hue + d) mod 360 for a d in [30,140], inside the range and
\* different from the hue before.
C28_HueRange ==
  marble # NoMarble =>
    /\ marble.hue \in 0..359
    /\ (Stepped /\ marble.hue # prev.hue) =>
         \E d \in 30..140 : marble.hue = (prev.hue + d) % 360
    /\ (Stepped /\ prev.state = "behind" /\ marble.state = "falling") =>
         marble.hue # prev.hue
    /\ (Stepped /\ prev.state = "rolling" /\ marble.state = "falling") =>
         marble.hue # prev.hue

\* a marble created with hue 359 came out from behind with the smallest
\* shift, across 360
C28_Witness ==
  /\ Stepped
  /\ prev.state = "behind"
  /\ marble.state = "falling"
  /\ prev.hue = 359
  /\ marble.hue = 29

\* C29: on a board of known tiles every step changes the position: a step
\* that ends rolling has a momentum other than "0" and moves to the axis
\* neighbour in that direction on the torus, a step that ends falling or
\* behind moves by (+1,+1).
C29_NeverStationary ==
  (Stepped /\ AllTilesKnown) =>
    /\ marble.gridPosition # prev.gridPosition
    /\ marble.state = "rolling" =>
         /\ marble.momentum \in MomentumDirection \ {"0"}
         /\ marble.gridPosition = RollTarget(prev.gridPosition, marble.momentum)
    /\ marble.state \in {"falling", "behind"} =>
         marble.gridPosition = FallTarget(prev.gridPosition)

\* a marble that fell on the junction in the corner rolled off in +y
\* direction to the other side of the board
C29_Witness ==
  /\ SteppedOnTile
  /\ AllTilesKnown
  /\ prev.state = "falling"
  /\ prev.gridPosition = Pos(10, 10)
  /\ marble.gridPosition = Pos(10, -10)

\* C30: a turn tile with exits {a, b} sends a marble that enters against a
\* out at b and a marble that enters against b out at a; a 3-way junction
\* with exits {a, b, opposite(b)} sends a marble that enters against a out
\* at b or opposite(b), never at a.
C30_Turns ==
  (SteppedOnTile /\ TileName \in TurnNames \cup ThreeWayNames) =>
    LET exits == Entry(TileName).defaultOutputMomentum.values
        a == exits[1]
        b == exits[2]
    IN  IF TileName \in TurnNames
          THEN /\ Len(exits) = 2
               /\ prev.momentum = Opposite(a) => marble.momentum = b
               /\ prev.momentum = Opposite(b) => marble.momentum = a
          ELSE /\ Len(exits) = 3
               /\ exits[3] = Opposite(b)
               /\ prev.momentum = Opposite(a) =>
                    /\ marble.momentum \in {b, Opposite(b)}
                    /\ marble.momentum # a

\* a marble rolling in -x direction was turned to +y by TurnXY
C30_Witness ==
  /\ SteppedOnTile
  /\ TileName = "TurnXY"
  /\ prev.momentum = "-x"
  /\ marble.momentum = "+y"

(***************************************************************************)
(* Reversal                                                                *)
(***************************************************************************)
\* C31: a straight, turn, 3-way or 4-way tile never sends a marble back the
\* way it came: after a step from such a tile with a momentum other than
\* "0" the momentum is not the opposite of the one before, and no output
\* the registry allows for such a tile and input is the opposite of the
\* input; a step that reverses a marble was taken from a landing tile.
C31_NoReversal ==
  /\ \A name \in RegistryNames \ LandingNames :
       \A input \in MomentumDirection \ {"0"} :
         Opposite(input) \notin AllowedOutputs(name, input)
  /\ (SteppedOnTile /\ prev.momentum \in MomentumDirection \ {"0"}) =>
       /\ TileName \in RegistryNames \ LandingNames =>
            marble.momentum # Opposite(prev.momentum)
       /\ marble.momentum = Opposite(prev.momentum) =>
            TileName \in LandingNames

\* a marble rolling in -x direction over the 3-way junction TPlusX, whose
\* rule for -x draws from two outputs, left in +y direction
C31_Witness ==
  /\ SteppedOnTile
  /\ TileName = "TPlusX"
  /\ prev.momentum = "-x"
  /\ marble.momentum = "+y"

(***************************************************************************)
(* Occlusion at the edge of the board                                      *)
(***************************************************************************)
TilesInRange(pieces) == \A i \in 1..Len(pieces) : InRange(pieces[i].position)

\* the tile cell c lies on the edge opposite to the marble's cell p
OppositeEdge(p, c) ==
  \/ p.x = -10 /\ c.x \in {9, 10}
  \/ p.y = -10 /\ c.y \in {9, 10}

\* some tile sits at p plus one of the six offsets, taken on the torus
TorusCovered(p, pieces) ==
  \E o \in SixOffsets : TorusPos(p.x + o[1], p.y + o[2]) \in TileCellsOf(pieces)

\* C32: the occlusion test does not wrap: with every tile inside the board,
\* a behind marble that arrives at x = -10 or y = -10 stays behind exactly
\* when a tile that is not on the opposite edge sits at one of the six
\* unwrapped offsets; a tile on the opposite edge never keeps it behind.
C32_OcclusionDoesNotWrap ==
  (/\ Stepped
   /\ prev.state = "behind"
   /\ TilesInRange(trackPieces)
   /\ marble.gridPosition.x = -10 \/ marble.gridPosition.y = -10) =>
    LET p == marble.gridPosition
        near == {c \in TileCellsOf(trackPieces) : ~OppositeEdge(p, c)}
    IN  /\ marble.state = "behind" <=>
             \E o \in SixOffsets : Pos(p.x + o[1], p.y + o[2]) \in near
        /\ (\A c \in TileCellsOf(trackPieces) : OppositeEdge(p, c)) =>
             marble.state = "falling"

\* a behind marble arrived at x = -10 away from the corner, the only tile
\* was its neighbour across the edge, and it came out falling
C32_Witness ==
  /\ Stepped
  /\ prev.state = "behind"
  /\ TilesInRange(trackPieces)
  /\ marble.gridPosition.x = -10
  /\ marble.gridPosition.y # -10
  /\ TorusCovered(marble.gridPosition, trackPieces)
  /\ \A c \in TileCellsOf(trackPieces) : OppositeEdge(marble.gridPosition, c)
  /\ marble.state = "falling"

(***************************************************************************)
(* The projection                                                          *)
(***************************************************************************)
\* C36: for a cell p the screen point is ((p.x - p.y) * 50, (p.x + p.y) * 25);
\* gridToScreenPosition and gridToScreen of the 100-pixel configuration
\* agree on it, screenToGrid takes it back to p (the preview the handler
\* sets is p), and no other cell has the same screen point.
C36_Projection ==
  last.op = "hover" =>
    LET p == last.at[1]
    IN  /\ gridToScreen(p) = Pos((p.x - p.y) * 50, (p.x + p.y) * 25)
        /\ gridToScreenPosition(p) = gridToScreen(p)
        /\ screenToGrid(gridToScreen(p)) = p
        /\ ui.previewPosition = Some(p)
        /\ \A q \in ProjectionCells : gridToScreen(q) = gridToScreen(p) => q = p

\* the mouse was over the screen point (-400, -50) and the preview is at
\* the cell (-5, 3)
C36_Witness ==
  /\ last.op = "hover"
  /\ last.at = Some(Pos(-5, 3))
  /\ gridToScreen(last.at[1]) = Pos(-400, -50)
  /\ ui.previewPosition = Some(Pos(-5, 3))

(***************************************************************************)
(* Render depth of a behind marble                                         *)
(***************************************************************************)
\* the cell a rolling marble came from: one step against its momentum, on
\* the torus
RolledOff(m) ==
  TorusPos(m.gridPosition.x - momentumToVelocity(m.momentum).x,
           m.gridPosition.y - momentumToVelocity(m.momentum).y)

\* the marble rolled in -x or -y direction off a tile that is still on the
\* board, and went behind
WentBehindOffTile ==
  /\ Stepped
  /\ prev.state = "rolling"
  /\ prev.momentum \in {"-x", "-y"}
  /\ marble.state = "behind"
  /\ HasTile(RolledOff(prev), trackPieces)

\* C37: the render depth of a marble that went behind,
\* 100 + (behindCoordinates.x + behindCoordinates.y) - 1, is lower than the
\* depth 100 + (x + y) of the tile it rolled off backwards, also when the
\* roll-off wrapped across the edge of the board.
C37_BehindDepth ==
  WentBehindOffTile =>
    marbleZIndex(marble) < spriteZIndex(RolledOff(prev))

(***************************************************************************)
(* The page: ticks, the board they see, and the editor                     *)
(***************************************************************************)
\* the last operation of the page was a tick of all marbles
Ticked == last.op \in {"step", "timer"}

\* the number of tiles of a list at a position
TilesAt(sps, gridPos) ==
  Cardinality({k \in 1..Len(sps) : sps[k].position = gridPos})

\* C21: a tick keeps the number of marbles, their ids and their order, and
\* a marble leaves the list only when clear-all empties it.
C21_TickKeepsMarbles ==
  [][/\ last'.op \in {"step", "timer"} =>
          /\ Len(marbles') = Len(marbles)
          /\ \A i \in 1..Len(marbles) : marbles'[i].id = marbles[i].id
     /\ (\E i \in 1..Len(marbles) :
           \A j \in 1..Len(marbles') : marbles'[j].id # marbles[i].id) =>
          (last'.op = "clear" /\ marbles' = << >>)]_vars

\* the timer ticked two marbles
C21_Witness ==
  /\ last.op = "timer"
  /\ Len(last.marbles) = 2
  /\ Len(marbles) = 2

\* C22: every tick, of the Step button or of the timer, steps the marbles
\* against the board as it is at the moment of the tick.
C22_TickSeesCurrentBoard ==
  Ticked => last.pieces = trackPiecesOf(last.sprites)

\* C23: in one tick every marble is stepped against one and the same board,
\* and its next value is the step of that marble alone on that board,
\* whatever other marbles the list holds.
C23_OneSnapshotPerTick ==
  Ticked =>
    /\ Len(marbles) = Len(last.marbles)
    /\ \A i \in 1..Len(marbles) :
         \E r \in PageDraws :
           marbles[i] = updateMarbleStateMachine(last.marbles[i], last.pieces, r)

\* a tick moved the second marble into the cell the first one stood in
C23_Witness ==
  /\ Ticked
  /\ Len(marbles) = 2
  /\ marbles[2].gridPosition = last.marbles[1].gridPosition

\* C24: after any sequence of operations of the editor no two tiles share a
\* position.
C24_OneTilePerCell ==
  \A i, j \in 1..Len(sprites) :
    i # j => sprites[i].position # sprites[j].position

\* C25, as claimed: after placeSprite at a position, occupied before or
\* not, the position holds exactly one tile.
C25_AddKeepsOneTile ==
  last.op = "place" => TilesAt(sprites, last.at[1]) = 1

\* C25, amended: placeSprite at an occupied position adds no tile and
\* removes a tile of that position: the tiles left are those with another
\* id, in their order, and the position holds fewer tiles than before; at an
\* empty position it appends exactly one tile there, of the selected type,
\* and keeps the rest.
C25_PlaceTogglesTile ==
  last.op = "place" =>
    LET gridPos == last.at[1]
        before == last.sprites
    IN  IF TilesAt(before, gridPos) > 0
          THEN /\ TilesAt(sprites, gridPos) < TilesAt(before, gridPos)
               /\ \E n \in 1..Len(before) :
                    LET Others(sp) == sp.id # before[n].id
                    IN  /\ before[n].position = gridPos
                        /\ sprites = Filter(before, Others)
          ELSE /\ TilesAt(sprites, gridPos) = 1
               /\ Len(sprites) = Len(before) + 1
               /\ SubSeq(sprites, 1, Len(before)) = before
               /\ sprites[Len(sprites)].position = gridPos
               /\ sprites[Len(sprites)].blockName =
                    SPRITE_TYPES[ui.selectedSpriteType].blockName

\* a click of the place tool on the only tile of a cell removed it
C25_Witness ==
  /\ last.op = "place"
  /\ TilesAt(last.sprites, last.at[1]) = 1
  /\ TilesAt(sprites, last.at[1]) = 0

(***************************************************************************)
(* The hue of the tiles after a tick                                       *)
(***************************************************************************)
\* the marbles, by index, that stood on tile k before the last tick and are
\* rolling after it
RollingFromTile(k) ==
  {i \in 1..Len(last.marbles) :
     /\ last.marbles[i].gridPosition = last.sprites[k].position
     /\ marbles[i].state = "rolling"}

\* C33: after a tick, a tile has the hue of a marble exactly when some
\* marble stood at the tile's position before the tick and is rolling
\* after it, and then it is the hue of the first such marble of the list;
\* every other tile keeps its hue, and all tiles keep position and type.
C33_TileHueAfterTick ==
  Ticked =>
    /\ Len(sprites) = Len(last.sprites)
    /\ Len(marbles) = Len(last.marbles)
    /\ \A k \in 1..Len(sprites) :
         sprites[k] =
           IF RollingFromTile(k) # {}
             THEN [last.sprites[k] EXCEPT
                     !.hue = Some(marbles[Min(RollingFromTile(k))].hue)]
             ELSE last.sprites[k]

(***************************************************************************)
(* The roll sounds                                                         *)
(***************************************************************************)
MarbleIds == {marbles[i].id : i \in 1..Len(marbles)}

\* C34: while sound is enabled, after updateMarbles has processed the
\* marble list, a marble id has a registered roll sound exactly when the
\* marble is rolling, and the ids of removed marbles have none.
C34_RollSoundIffRolling ==
  sound.enabledRef =>
    /\ \A i \in 1..Len(marbles) :
         marbles[i].id \in DOMAIN sound.rollingAudios <=>
           marbles[i].state = "rolling"
    /\ DOMAIN sound.rollingAudios \subseteq MarbleIds

\* C35: while sound is disabled no roll sound is registered, no Audio
\* element of a roll sound plays and the tap sound does not play.
C35_SilentWhileDisabled ==
  ~sound.enabledRef =>
    /\ sound.rollingAudios = << >>
    /\ \A a \in 1..Len(sound.audios) : ~sound.audios[a].playing
    /\ ~sound.tapPlaying

====
